---------------------------- MODULE Spec2Model ----------------------------
(***************************************************************************)
(* The constant-folding pass of matiec (stage3/constant_folding.cc).       *)
(*                                                                         *)
(* The pass walks an abstract syntax tree and annotates every node with up *)
(* to four candidate constant values (bool, int64, uint64, real64), each   *)
(* with a status.  The model keeps the pass as a state machine: the AST,   *)
(* the annotation of every node, the visitor's call stack, and the number  *)
(* of runs of the pass over the same AST.                                  *)
(*                                                                         *)
(* Machine words are scaled from 64 bits to Width bits, so that every      *)
(* limit of the source (INT64_MIN, INT64_MAX, UINT64_MAX) is a function of *)
(* Width and every corner case of the 64-bit code has its scaled twin.     *)
(***************************************************************************)
EXTENDS Integers, Sequences, FiniteSets, TLC

VARIABLES
    ast,        \* the tree under the pass: node -> [kind, value, math]
    cv,         \* the annotation: node -> dtype -> [status, value]
    stack,      \* the visitor's call stack: frames [sym, pc]
    run,        \* number of runs of the pass started so far
    done_cv,    \* history: the annotation at the end of each completed run
    wlog,       \* history: statuses written to each slot in the current run
    unmet,      \* history: the slots without a value whose value the pass has
                \* read in the current run
    post,       \* history: the symbols whose visit method has returned in the
                \* current run, in the order of the returns
    errno,      \* the errno of the C runtime
    build,      \* what the compiled pass does where the C++ code is undefined,
                \* open until the pass first executes such an operation
    aborted,    \* the process was ended (ERROR, or a trap of the native operation)
    enum_decl,  \* an enumerated type declaration: [name, values]
    text        \* the conversion functions generated for it

vars == <<ast, cv, stack, run, done_cv, wlog, unmet, post, errno, build, aborted, enum_decl, text>>

---------------------------------------------------------------------------
(* Bounds of the model *)

\* width of the machine word standing for the 64-bit word of the source
Width == 4
\* number of times the pass is run over the same AST
MaxRuns == 2
\* number of values of an enumerated type
MaxEnum == 3

---------------------------------------------------------------------------
(* Limits of the integer and floating point types *)

\* the value of ERANGE in <errno.h>
ERANGE == 34

UINT64_MAX == 2^Width - 1
INT64_MAX  == 2^(Width - 1) - 1
INT64_MIN  == -(2^(Width - 1))

\* real64 values are counted in halves: the integer k stands for k/2
REAL64_MAX   == 2^(Width + 8)
INFINITY     == REAL64_MAX + 1
NEG_INFINITY == -INFINITY
NAN          == 2 * INFINITY

dtypes == {"bool", "int64", "uint64", "real64"}

---------------------------------------------------------------------------
(* Text of literals, as the scanner hands it over: sequences of characters *)

DigitChars == <<"0","1","2","3","4","5","6","7","8","9","A","B","C","D","E","F">>

RECURSIVE Digits(_, _)
Digits(v, base) ==
    IF v < base THEN <<DigitChars[v + 1]>>
    ELSE Digits(v \div base, base) \o <<DigitChars[(v % base) + 1]>>

\* the same digits with a '_' separator after the first digit
WithSep(s) == IF Len(s) < 2 THEN s ELSE <<s[1], "_">> \o Tail(s)

Prefix(kind) ==
    CASE kind = "hex_integer_c"    -> <<"1", "6", "#">>
      [] kind = "octal_integer_c"  -> <<"8", "#">>
      [] kind = "binary_integer_c" -> <<"2", "#">>
      [] OTHER                     -> <<>>

Base(kind) ==
    CASE kind = "hex_integer_c"    -> 16
      [] kind = "octal_integer_c"  -> 8
      [] kind = "binary_integer_c" -> 2
      [] OTHER                     -> 10

---------------------------------------------------------------------------
(* convert string to numerical value *)

IsDigit(c, base) == \E d \in 0..(base - 1) : DigitChars[d + 1] = c

DigitVal(c) == CHOOSE d \in 0..15 : DigitChars[d + 1] = c

\* strtol/strtoll/strtoul/strtoull on a string of digits: the value of the
\* longest prefix of digits of the base, saturated at max with errno = ERANGE
RECURSIVE strto_loop(_, _, _, _, _, _)
strto_loop(str, base, max, i, acc, erange) ==
    IF i > Len(str) \/ ~IsDigit(str[i], base)
    THEN [ret |-> acc, erange |-> erange, endptr |-> i]
    ELSE LET d == DigitVal(str[i])
             over == erange \/ acc > (max - d) \div base
         IN strto_loop(str, base, max, i + 1,
                       IF over THEN max ELSE acc * base + d, over)

\* variant: the signed conversion saturates at the unsigned limit
matiec_strtoint64_unsigned(str, base) == strto_loop(str, base, UINT64_MAX, 1, 0, FALSE)

matiec_strtoint64(str, base)  == strto_loop(str, base, INT64_MAX, 1, 0, FALSE)

matiec_strtouint64(str, base) == strto_loop(str, base, UINT64_MAX, 1, 0, FALSE)

\* for (i...) if (value[i] != '_') str += value[i];
StripUnderscores(value) == SelectSeq(value, LAMBDA c : c # "_")

\* value = integer->value + 0 / + 3 / + 2 / + 2
SkipPrefix(sym) ==
    CASE sym.kind = "integer_c"        -> 0
      [] sym.kind = "hex_integer_c"    -> 3
      [] sym.kind = "octal_integer_c"  -> 2
      [] sym.kind = "binary_integer_c" -> 2

IsIntegerKind(kind) ==
    kind \in {"integer_c", "hex_integer_c", "octal_integer_c", "binary_integer_c"}

\* variant: errno is not cleared before the conversion
KeepErrno(e) == e

\* errno after errno = 0, "since strtoXX() may legally return 0, we must set
\* errno to 0 to detect errors correctly"
ClearErrno(e) == 0

\* The result of an extractor called with errno = e: the value returned,
\* *overflow, whether the function ended in ERROR, and errno after it.
\* strtoXX() sets errno when the value is out of range and leaves it alone
\* otherwise.
Extracted(e, r, str) ==
    LET e1 == IF r.erange THEN ERANGE ELSE ClearErrno(e)
    IN [ret      |-> r.ret,
        overflow |-> e1 = ERANGE,
        error    |-> (e1 # 0 /\ e1 # ERANGE) \/ r.endptr # Len(str) + 1,
        errno    |-> e1]

extract_int64_value(e, sym) ==
    IF ~IsIntegerKind(sym.kind)
    THEN [ret |-> 0, overflow |-> FALSE, error |-> TRUE, errno |-> e]
    ELSE LET value == SubSeq(sym.value, SkipPrefix(sym) + 1, Len(sym.value))
             str   == StripUnderscores(value)
         IN Extracted(e, matiec_strtoint64(str, Base(sym.kind)), str)

extract_uint64_value(e, sym) ==
    IF ~IsIntegerKind(sym.kind)
    THEN [ret |-> 0, overflow |-> FALSE, error |-> TRUE, errno |-> e]
    ELSE LET value == SubSeq(sym.value, SkipPrefix(sym) + 1, Len(sym.value))
             str   == StripUnderscores(value)
         IN Extracted(e, matiec_strtouint64(str, Base(sym.kind)), str)

---------------------------------------------------------------------------
(* real64 arithmetic: a value is the integer count of halves, INFINITY and   *)
(* NEG_INFINITY lie just outside [-REAL64_MAX, REAL64_MAX], NAN is apart.    *)

Abs(x) == IF x < 0 THEN -x ELSE x

Sign(x) == IF x < 0 THEN -1 ELSE 1

\* p/q (q > 0) rounded to the nearest integer, ties to even
RoundNearestEven(p, q) ==
    LET f == p \div q
        r == p - f * q
    IN  IF 2 * r < q THEN f
        ELSE IF 2 * r > q THEN f + 1
        ELSE IF f % 2 = 0 THEN f ELSE f + 1

\* a result of real64 arithmetic outside the range becomes an infinity
ToReal64(k) ==
    IF k > REAL64_MAX THEN INFINITY
    ELSE IF k < -REAL64_MAX THEN NEG_INFINITY
    ELSE k

\* the count of halves nearest to num/den (den # 0)
Real64OfRatio(num, den) ==
    ToReal64(RoundNearestEven(2 * num * Sign(den), Abs(den)))

RECURSIVE Pow10(_)
Pow10(n) == IF n = 0 THEN 1 ELSE 10 * Pow10(n - 1)

RECURSIVE DecimalValue(_, _)
DecimalValue(str, acc) ==
    IF str = <<>> THEN acc ELSE DecimalValue(Tail(str), 10 * acc + DigitVal(Head(str)))

IndexOf(str, chars) ==
    IF \E i \in 1..Len(str) : str[i] \in chars
    THEN CHOOSE i \in 1..Len(str) : str[i] \in chars /\ \A j \in 1..(i - 1) : str[j] \notin chars
    ELSE Len(str) + 1

\* strtod on  integer "." integer ( [Ee] [+-]? integer )? : the nearest
\* real64, HUGE_VAL and errno = ERANGE when the magnitude is out of range
strtod(str) ==
    LET dot   == IndexOf(str, {"."})
        e     == IndexOf(str, {"E"})
        ip    == SubSeq(str, 1, dot - 1)
        fp    == SubSeq(str, dot + 1, e - 1)
        hasE  == e <= Len(str)
        neg   == hasE /\ e < Len(str) /\ str[e + 1] = "-"
        sgn   == hasE /\ e < Len(str) /\ str[e + 1] \in {"+", "-"}
        ex    == IF hasE THEN SubSeq(str, e + (IF sgn THEN 2 ELSE 1), Len(str)) ELSE <<>>
        wellformed ==
            /\ dot <= Len(str) /\ ip # <<>> /\ fp # <<>>
            /\ \A i \in 1..Len(ip) : IsDigit(ip[i], 10)
            /\ \A i \in 1..Len(fp) : IsDigit(fp[i], 10)
            /\ hasE => (ex # <<>> /\ \A i \in 1..Len(ex) : IsDigit(ex[i], 10))
        mant  == DecimalValue(ip \o fp, 0)
        scale == Pow10(Len(fp))
        p10   == Pow10(DecimalValue(ex, 0))
        num   == IF neg THEN mant ELSE mant * p10
        den   == IF neg THEN scale * p10 ELSE scale
        ret   == Real64OfRatio(num, den)
    IN  IF ~wellformed THEN [ret |-> 0, erange |-> FALSE, endptr |-> 1]
        ELSE [ret |-> ret,
              erange |-> ret = INFINITY \/ (ret = 0 /\ mant # 0),
              endptr |-> Len(str) + 1]

extract_real_value(e, sym) ==
    IF sym.kind # "real_c"
    THEN [ret |-> 0, overflow |-> FALSE, error |-> TRUE, errno |-> e]
    ELSE LET str == StripUnderscores(sym.value)
         IN Extracted(e, strtod(str), str)

isnan(x) == x = NAN

real64_add(a, b) == ToReal64(a + b)

real64_sub(a, b) == ToReal64(a - b)

real64_mul(a, b) == Real64OfRatio(a * b, 4)

\* the divisor is not zero where the pass divides
real64_div(a, b) == Real64OfRatio(a, b)

\* pow(x, n) for a real64 x and an integer exponent n: |n| steps from 1.0,
\* each rounded to real64, an infinity staying one
RECURSIVE pow_loop(_, _, _)
pow_loop(x, n, acc) ==
    IF n = 0 THEN acc
    ELSE IF Abs(acc) = INFINITY THEN pow_loop(x, n - Sign(n), IF x < 0 THEN -acc ELSE acc)
    ELSE IF n > 0 THEN pow_loop(x, n - 1, real64_mul(acc, x))
    ELSE IF x = 0 THEN INFINITY
    ELSE pow_loop(x, n + 1, real64_div(acc, x))

pow(x, n) == pow_loop(x, n, 2)

---------------------------------------------------------------------------
(* The native operations of the host on Width-bit words *)

WrapU(x) == x % (2^Width)

WrapI(x) == ((x - INT64_MIN) % (2^Width)) + INT64_MIN

\* C++ integer division truncates toward zero
TruncDiv(a, b) == Sign(a) * Sign(b) * (Abs(a) \div Abs(b))

\* C++ remainder: a - (a/b)*b, with the sign of a
TruncRem(a, b) == a - TruncDiv(a, b) * b

RECURSIVE BitOp(_, _, _, _)
BitOp(oper, a, b, n) ==
    IF n = 0 THEN 0
    ELSE LET x == a % 2
             y == b % 2
             bit == CASE oper = "|" -> IF x + y > 0 THEN 1 ELSE 0
                      [] oper = "&" -> x * y
                      [] oper = "^" -> (x + y) % 2
         IN bit + 2 * BitOp(oper, a \div 2, b \div 2, n - 1)

\* outcomes of the operations C++ leaves undefined, as the build decides:
\* ovf, a signed overflow traps or wraps; div, an integer division the
\* hardware cannot do (by zero, INT64_MIN by -1) traps or leaves a value,
\* for the division by zero a quotient of zero or of all ones
UBOutcomes == [ovf : {"trap", "wrap"}, div : {"trap", "zero", "ones"}]

\* no undefined operation has been executed yet
Undecided == [ovf |-> "any", div |-> "any"]

Compare(oper, a, b) ==
    CASE oper = "==" -> a = b
      [] oper = "!=" -> a # b
      [] oper = "<"  -> a < b
      [] oper = ">"  -> a > b
      [] oper = "<=" -> a <= b
      [] oper = ">=" -> a >= b

RelOpers == {"==", "!=", "<", ">", "<=", ">="}

BoolInt(b) == IF b THEN 1 ELSE 0

\* l oper r on operands of type dtype: [val, ub], ub when the operation is
\* undefined in C++ (signed overflow, INT64_MIN / -1, INT64_MIN % -1)
NativeBinary(dtype, oper, l, r) ==
    CASE dtype = "bool" ->
           [val |-> CASE oper = "||" -> l \/ r
                      [] oper = "&&" -> l /\ r
                      [] oper = "^"  -> l # r
                      [] OTHER       -> Compare(oper, BoolInt(l), BoolInt(r)),
            ub |-> FALSE]
      [] dtype = "uint64" ->
           [val |-> CASE oper = "+" -> WrapU(l + r)
                      [] oper = "-" -> WrapU(l - r)
                      [] oper = "*" -> WrapU(l * r)
                      [] oper = "/" -> l \div r
                      [] oper = "%" -> l % r
                      [] oper \in {"|", "&", "^"} -> BitOp(oper, l, r, Width)
                      [] OTHER      -> Compare(oper, l, r),
            ub |-> FALSE]
      [] dtype = "int64" ->
           LET exact == CASE oper = "+" -> l + r
                          [] oper = "-" -> l - r
                          [] oper = "*" -> l * r
                          [] oper = "/" -> TruncDiv(l, r)
                          [] oper = "%" -> TruncRem(l, r)
                          [] OTHER      -> 0
           IN IF oper \in RelOpers THEN [val |-> Compare(oper, l, r), ub |-> FALSE]
              ELSE IF oper \in {"/", "%"} /\ l = INT64_MIN /\ r = -1
                   THEN [val |-> IF oper = "/" THEN INT64_MIN ELSE 0, ub |-> TRUE]
              ELSE [val |-> WrapI(exact), ub |-> exact < INT64_MIN \/ exact > INT64_MAX]
      [] dtype = "real64" ->
           [val |-> CASE oper = "+" -> real64_add(l, r)
                      [] oper = "-" -> real64_sub(l, r)
                      [] oper = "*" -> real64_mul(l, r)
                      [] oper = "/" -> real64_div(l, r)
                      [] OTHER      -> Compare(oper, l, r),
            ub |-> FALSE]

\* oper a on an operand of type dtype; the empty oper copies the value
NativeUnary(dtype, oper, a) ==
    CASE oper = "" -> [val |-> a, ub |-> FALSE]
      [] oper = "!" -> [val |-> ~a, ub |-> FALSE]
      [] oper = "~" -> [val |-> UINT64_MAX - a, ub |-> FALSE]
      [] oper = "-" /\ dtype = "int64" ->
           [val |-> WrapI(-a), ub |-> a = INT64_MIN]
      [] oper = "-" /\ dtype = "real64" -> [val |-> -a, ub |-> FALSE]

---------------------------------------------------------------------------
(* The constant values of a symbol and the macros that handle them.        *)
(* A pass state st is [cv, wlog, rd, errno, ab]: the annotation, the log   *)
(* of writes, the reads of slots without a value, errno, and whether the   *)
(* process ended ("no", "ERROR", "trap").                                  *)

Zero(dtype) == IF dtype = "bool" THEN FALSE ELSE 0

\* symbol->const_value_<dtype> == NULL
NullSlot(dtype) == [status |-> "NULL", value |-> Zero(dtype)]

Write(st, dtype, symbol, slot) ==
    IF st.ab # "no" THEN st
    ELSE [st EXCEPT !.cv[symbol][dtype] = slot,
                    !.wlog[symbol][dtype] = Append(@, slot.status)]

\* a fresh record, its status cs_undefined; its value is not initialised and
\* is never read before SET_CVALUE writes it
NEW_CVALUE(st, dtype, symbol) ==
    Write(st, dtype, symbol, [status |-> "cs_undefined", value |-> Zero(dtype)])

SET_CVALUE(st, dtype, symbol, new_value) ==
    Write(st, dtype, symbol, [status |-> "cs_const_value", value |-> new_value])

SET_OVFLOW(st, dtype, symbol) ==
    Write(st, dtype, symbol, [status |-> "cs_overflow", value |-> st.cv[symbol][dtype].value])

GET_CVALUE(st, dtype, symbol) == st.cv[symbol][dtype].value

VALID_CVALUE(st, dtype, symbol) == st.cv[symbol][dtype].status = "cs_const_value"

\* GET_CVALUE where no test of VALID_CVALUE(dtype, symbol) precedes it: the
\* read is recorded if the slot has no value
Fetch(st, dtype, symbol) ==
    IF st.ab # "no" \/ VALID_CVALUE(st, dtype, symbol) THEN st
    ELSE [st EXCEPT !.rd = @ \cup {[sym |-> symbol, dtype |-> dtype,
                                    status |-> st.cv[symbol][dtype].status]}]

ISZERO_CVALUE(st, dtype, symbol) ==
    VALID_CVALUE(st, dtype, symbol) /\ GET_CVALUE(st, dtype, symbol) = 0

\* the process ends: ERROR, or the trap of an undefined operation
Abort(st, how) == IF st.ab # "no" THEN st ELSE [st EXCEPT !.ab = how]

\* the children of a symbol
l_exp(symbol) == 2 * symbol

r_exp(symbol) == 2 * symbol + 1

exp(symbol) == 2 * symbol


\* variant: only the right operand is tested
DO_BINARY_OPER_right_tested(st, dtype, oper, otype, symbol, ub) ==
    IF VALID_CVALUE(st, dtype, r_exp(symbol))
    THEN LET s1 == NEW_CVALUE(st, otype, symbol)
             n  == NativeBinary(dtype, oper, GET_CVALUE(st, dtype, l_exp(symbol)),
                                             GET_CVALUE(st, dtype, r_exp(symbol)))
         IN IF n.ub /\ (IF oper \in {"/", "%"} THEN ub.div ELSE ub.ovf) = "trap"
            THEN Abort(s1, "trap")
            ELSE SET_CVALUE(s1, otype, symbol, n.val)
    ELSE st

\* if both operands have a valid dtype value: a new otype value of the
\* symbol, set to  l_exp oper r_exp
DO_BINARY_OPER(st, dtype, oper, otype, symbol, ub) ==
    IF VALID_CVALUE(st, dtype, r_exp(symbol)) /\ VALID_CVALUE(st, dtype, l_exp(symbol))
    THEN LET s1 == NEW_CVALUE(st, otype, symbol)
             n  == NativeBinary(dtype, oper, GET_CVALUE(st, dtype, l_exp(symbol)),
                                             GET_CVALUE(st, dtype, r_exp(symbol)))
         IN IF n.ub /\ (IF oper \in {"/", "%"} THEN ub.div ELSE ub.ovf) = "trap"
            THEN Abort(s1, "trap")
            ELSE SET_CVALUE(s1, otype, symbol, n.val)
    ELSE st

\* variant: the operand is not tested
DO_UNARY_OPER_untested(st, dtype, oper, arg, symbol, ub) ==
    LET s1 == NEW_CVALUE(st, dtype, symbol)
        n  == NativeUnary(dtype, oper, GET_CVALUE(st, dtype, arg))
    IN IF n.ub /\ ub.ovf = "trap"
       THEN Abort(s1, "trap")
       ELSE SET_CVALUE(s1, dtype, symbol, n.val)

\* if the operand has a valid dtype value: a new dtype value of the
\* symbol, set to  oper arg
DO_UNARY_OPER(st, dtype, oper, arg, symbol, ub) ==
    IF VALID_CVALUE(st, dtype, arg)
    THEN LET s1 == NEW_CVALUE(st, dtype, symbol)
             n  == NativeUnary(dtype, oper, GET_CVALUE(st, dtype, arg))
         IN IF n.ub /\ ub.ovf = "trap"
            THEN Abort(s1, "trap")
            ELSE SET_CVALUE(s1, dtype, symbol, n.val)
    ELSE st

---------------------------------------------------------------------------
(* Functions to check for overflow situation *)

\* res = a + b
CHECK_OVERFLOW_uint64_SUM(s0, res, a, b) ==
    IF ~VALID_CVALUE(s0, "uint64", res) THEN s0
    ELSE LET st == Fetch(Fetch(s0, "uint64", a), "uint64", b) IN
         IF (UINT64_MAX - GET_CVALUE(st, "uint64", a)) < GET_CVALUE(st, "uint64", b)
         THEN SET_OVFLOW(st, "uint64", res)
         ELSE st

\* res = a - b
\* a difference of zero is taken for an overflow
CHECK_OVERFLOW_uint64_SUB_or_equal(s0, res, a, b) ==
    IF ~VALID_CVALUE(s0, "uint64", res) THEN s0
    ELSE LET st == Fetch(Fetch(s0, "uint64", a), "uint64", b) IN
         IF GET_CVALUE(st, "uint64", b) >= GET_CVALUE(st, "uint64", a)
         THEN SET_OVFLOW(st, "uint64", res)
         ELSE st

CHECK_OVERFLOW_uint64_SUB(s0, res, a, b) ==
    IF ~VALID_CVALUE(s0, "uint64", res) THEN s0
    ELSE LET st == Fetch(Fetch(s0, "uint64", a), "uint64", b) IN
         IF GET_CVALUE(st, "uint64", b) > GET_CVALUE(st, "uint64", a)
         THEN SET_OVFLOW(st, "uint64", res)
         ELSE st

\* res = a * b;  UINT64_MAX / a is undefined for a = 0: the division traps,
\* or leaves zero, or leaves all ones
CHECK_OVERFLOW_uint64_MUL(s0, res, a, b, ub) ==
    IF ~VALID_CVALUE(s0, "uint64", res) THEN s0
    ELSE LET st == Fetch(Fetch(s0, "uint64", a), "uint64", b) IN
         LET av == GET_CVALUE(st, "uint64", a)
             bv == GET_CVALUE(st, "uint64", b)
             q  == IF av # 0 THEN UINT64_MAX \div av
                   ELSE IF ub.div = "ones" THEN UINT64_MAX ELSE 0
         IN IF av = 0 /\ ub.div = "trap" THEN Abort(st, "trap")
            ELSE IF q < bv THEN SET_OVFLOW(st, "uint64", res)
            ELSE st

\* res = a / b
CHECK_OVERFLOW_uint64_DIV(s0, res, a, b) ==
    IF ~VALID_CVALUE(s0, "uint64", res) THEN s0
    ELSE LET st == Fetch(s0, "uint64", b) IN
         IF GET_CVALUE(st, "uint64", b) = 0
         THEN SET_OVFLOW(st, "uint64", res)
         ELSE st

\* res = a MOD b: no overflow condition exists
CHECK_OVERFLOW_uint64_MOD(st, res, a, b) ==
    IF ~VALID_CVALUE(st, "uint64", res) THEN st
    ELSE IF FALSE THEN SET_OVFLOW(st, "uint64", res)
         ELSE st

\* variant: only the overflow above INT64_MAX is tested
CHECK_OVERFLOW_int64_SUM_above(s0, res, a_ptr, b_ptr) ==
    IF ~VALID_CVALUE(s0, "int64", res) THEN s0
    ELSE LET st == Fetch(Fetch(s0, "int64", a_ptr), "int64", b_ptr) IN
         LET a == GET_CVALUE(st, "int64", a_ptr)
             b == GET_CVALUE(st, "int64", b_ptr)
         IN IF b > 0 /\ a > INT64_MAX - b
            THEN SET_OVFLOW(st, "int64", res)
            ELSE st

\* res = a + b
CHECK_OVERFLOW_int64_SUM(s0, res, a_ptr, b_ptr) ==
    IF ~VALID_CVALUE(s0, "int64", res) THEN s0
    ELSE LET st == Fetch(Fetch(s0, "int64", a_ptr), "int64", b_ptr) IN
         LET a == GET_CVALUE(st, "int64", a_ptr)
             b == GET_CVALUE(st, "int64", b_ptr)
         IN IF \/ (b > 0 /\ a > INT64_MAX - b)
               \/ (b < 0 /\ a < INT64_MIN - b)
            THEN SET_OVFLOW(st, "int64", res)
            ELSE st

\* res = a - b
CHECK_OVERFLOW_int64_SUB(s0, res, a_ptr, b_ptr) ==
    IF ~VALID_CVALUE(s0, "int64", res) THEN s0
    ELSE LET st == Fetch(Fetch(s0, "int64", a_ptr), "int64", b_ptr) IN
         LET a == GET_CVALUE(st, "int64", a_ptr)
             b == GET_CVALUE(st, "int64", b_ptr)
         IN IF \/ (b > 0 /\ a < INT64_MIN + b)
               \/ (b < 0 /\ a > INT64_MAX + b)
            THEN SET_OVFLOW(st, "int64", res)
            ELSE st

\* res = a * b
CHECK_OVERFLOW_int64_MUL(s0, res, a_ptr, b_ptr) ==
    IF ~VALID_CVALUE(s0, "int64", res) THEN s0
    ELSE LET st == Fetch(Fetch(s0, "int64", a_ptr), "int64", b_ptr) IN
         LET a == GET_CVALUE(st, "int64", a_ptr)
             b == GET_CVALUE(st, "int64", b_ptr)
         IN IF \/ (a > 0 /\ b > 0 /\ a > TruncDiv(INT64_MAX, b))
               \/ (a > 0 /\ ~(b > 0) /\ b < TruncDiv(INT64_MIN, a))
               \/ (~(a > 0) /\ b > 0 /\ a < TruncDiv(INT64_MIN, b))
               \/ (~(a > 0) /\ ~(b > 0) /\ a # 0 /\ b < TruncDiv(INT64_MAX, a))
            THEN SET_OVFLOW(st, "int64", res)
            ELSE st

\* res = a / b
CHECK_OVERFLOW_int64_DIV(s0, res, a_ptr, b_ptr) ==
    IF ~VALID_CVALUE(s0, "int64", res) THEN s0
    ELSE LET st == Fetch(Fetch(s0, "int64", a_ptr), "int64", b_ptr) IN
         LET a == GET_CVALUE(st, "int64", a_ptr)
             b == GET_CVALUE(st, "int64", b_ptr)
         IN IF b = 0 \/ (a = INT64_MIN /\ b = -1)
            THEN SET_OVFLOW(st, "int64", res)
            ELSE st

\* res = a MOD b
\* INT64_MIN MOD -1 is not taken for an overflow
CHECK_OVERFLOW_int64_MOD_never(st, res, a_ptr, b_ptr) == st

CHECK_OVERFLOW_int64_MOD(s0, res, a_ptr, b_ptr) ==
    IF ~VALID_CVALUE(s0, "int64", res) THEN s0
    ELSE LET st == Fetch(Fetch(s0, "int64", a_ptr), "int64", b_ptr) IN
         LET a == GET_CVALUE(st, "int64", a_ptr)
             b == GET_CVALUE(st, "int64", b_ptr)
         IN IF a = INT64_MIN /\ b = -1
            THEN SET_OVFLOW(st, "int64", res)
            ELSE st

\* res = - a
CHECK_OVERFLOW_int64_NEG(s0, res, a_ptr) ==
    IF ~VALID_CVALUE(s0, "int64", res) THEN s0
    ELSE LET st == Fetch(s0, "int64", a_ptr)
             a == GET_CVALUE(st, "int64", a_ptr)
         IN IF a = INT64_MIN
            THEN SET_OVFLOW(st, "int64", res)
            ELSE st

CHECK_OVERFLOW_real64(st, res_ptr) ==
    IF ~VALID_CVALUE(st, "real64", res_ptr) THEN st
    ELSE LET res == GET_CVALUE(st, "real64", res_ptr)
         IN IF isnan(res) \/ res = INFINITY \/ res = NEG_INFINITY
            THEN SET_OVFLOW(st, "real64", res_ptr)
            ELSE st

---------------------------------------------------------------------------
(* The constant_folding_c visitor: what each visit method does to the      *)
(* symbol once the children it visits have been visited                    *)

\* B 1.2.1 - Numeric Literals
\* SET_CVALUE(dtype, symbol, extract_..._value(symbol, &overflow)): x is what
\* the extractor left
SetExtracted(st, dtype, symbol, x) ==
    IF st.ab # "no" THEN st
    ELSE LET s1 == [st EXCEPT !.errno = x.errno]
         IN IF x.error THEN Abort(s1, "ERROR") ELSE SET_CVALUE(s1, dtype, symbol, x.ret)

real_c(st, symbol, ub) ==
    LET r  == extract_real_value(st.errno, ast[symbol])
        s1 == NEW_CVALUE(st, "real64", symbol)
        s2 == SetExtracted(s1, "real64", symbol, r)
    IN IF r.overflow THEN SET_OVFLOW(s2, "real64", symbol) ELSE s2

\* variant: the overflow is marked before the value is stored
integer_c_overflow_first(st, symbol, ub) ==
    LET i  == extract_int64_value(st.errno, ast[symbol])
        s1 == NEW_CVALUE(st, "int64", symbol)
        s2 == IF i.overflow THEN SET_OVFLOW(s1, "int64", symbol) ELSE s1
        s3 == SetExtracted(s2, "int64", symbol, i)
        u  == extract_uint64_value(s3.errno, ast[symbol])
        s4 == NEW_CVALUE(s3, "uint64", symbol)
        s5 == IF u.overflow THEN SET_OVFLOW(s4, "uint64", symbol) ELSE s4
    IN SetExtracted(s5, "uint64", symbol, u)

integer_c(st, symbol, ub) ==
    LET i  == extract_int64_value(st.errno, ast[symbol])
        s1 == NEW_CVALUE(st, "int64", symbol)
        s2 == SetExtracted(s1, "int64", symbol, i)
        s3 == IF i.overflow THEN SET_OVFLOW(s2, "int64", symbol) ELSE s2
        u  == extract_uint64_value(s3.errno, ast[symbol])
        s4 == NEW_CVALUE(s3, "uint64", symbol)
        s5 == SetExtracted(s4, "uint64", symbol, u)
    IN IF u.overflow THEN SET_OVFLOW(s5, "uint64", symbol) ELSE s5

neg_real_c(st, symbol, ub) ==
    LET s1 == DO_UNARY_OPER(st, "real64", "-", exp(symbol), symbol, ub)
    IN CHECK_OVERFLOW_real64(s1, symbol)

\* (uint64_t)(-INT64_MIN): the constant the compiler folds -INT64_MIN to,
\* in two's complement INT64_MIN itself, converted to uint64_t
NEG_INT64_MIN == WrapU(WrapI(-INT64_MIN))

\* variant: the literal is negated without the case of INT64_MIN
neg_integer_c_plain(st, symbol, ub) ==
    LET s1 == DO_UNARY_OPER(st, "int64", "-", exp(symbol), symbol, ub)
    IN CHECK_OVERFLOW_int64_NEG(s1, symbol, exp(symbol))

\* variant: the case of INT64_MIN also marks the uint64 slot overflow
neg_integer_c_marking_uint64(st, symbol, ub) ==
    LET s1 == DO_UNARY_OPER(st, "int64", "-", exp(symbol), symbol, ub)
        s2 == CHECK_OVERFLOW_int64_NEG(s1, symbol, exp(symbol))
    IN IF /\ VALID_CVALUE(s2, "uint64", exp(symbol))
          /\ GET_CVALUE(s2, "uint64", exp(symbol)) = NEG_INT64_MIN
       THEN SET_OVFLOW(NEW_CVALUE(
                SET_CVALUE(NEW_CVALUE(s2, "int64", symbol), "int64", symbol, INT64_MIN),
                "uint64", symbol), "uint64", symbol)
       ELSE s2

neg_integer_c(st, symbol, ub) ==
    LET s1 == DO_UNARY_OPER(st, "int64", "-", exp(symbol), symbol, ub)
        s2 == CHECK_OVERFLOW_int64_NEG(s1, symbol, exp(symbol))
    IN IF /\ VALID_CVALUE(s2, "uint64", exp(symbol))
          /\ GET_CVALUE(s2, "uint64", exp(symbol)) = NEG_INT64_MIN
       THEN SET_CVALUE(NEW_CVALUE(s2, "int64", symbol), "int64", symbol, INT64_MIN)
       ELSE s2

binary_integer_c(st, symbol, ub) == integer_c(st, symbol, ub)

octal_integer_c(st, symbol, ub) == integer_c(st, symbol, ub)

hex_integer_c(st, symbol, ub) == integer_c(st, symbol, ub)

\* the uint64 value of the literal is not taken over
integer_literal_c_int64_only(st, symbol, ub) ==
    DO_UNARY_OPER(st, "int64", "", exp(symbol), symbol, ub)

integer_literal_c(st, symbol, ub) ==
    LET s1 == DO_UNARY_OPER(st, "int64", "", exp(symbol), symbol, ub)
    IN DO_UNARY_OPER(s1, "uint64", "", exp(symbol), symbol, ub)

real_literal_c(st, symbol, ub) ==
    DO_UNARY_OPER(st, "real64", "", exp(symbol), symbol, ub)

bit_string_literal_c(st, symbol, ub) == st

boolean_literal_c(st, symbol, ub) ==
    DO_UNARY_OPER(st, "bool", "", exp(symbol), symbol, ub)

boolean_true_c(st, symbol, ub) ==
    SET_CVALUE(NEW_CVALUE(st, "bool", symbol), "bool", symbol, TRUE)

boolean_false_c(st, symbol, ub) ==
    SET_CVALUE(NEW_CVALUE(st, "bool", symbol), "bool", symbol, FALSE)

\* B 3.1 - Expressions
or_expression_c(st, symbol, ub) ==
    LET s1 == DO_BINARY_OPER(st, "bool", "||", "bool", symbol, ub)
    IN DO_BINARY_OPER(s1, "uint64", "|", "uint64", symbol, ub)

xor_expression_c(st, symbol, ub) ==
    LET s1 == DO_BINARY_OPER(st, "bool", "^", "bool", symbol, ub)
    IN DO_BINARY_OPER(s1, "uint64", "^", "uint64", symbol, ub)

and_expression_c(st, symbol, ub) ==
    LET s1 == DO_BINARY_OPER(st, "bool", "&&", "bool", symbol, ub)
    IN DO_BINARY_OPER(s1, "uint64", "&", "uint64", symbol, ub)

\* the four dispatches of a comparison, each writing the bool value
Relational(st, oper, symbol, ub) ==
    LET s1 == DO_BINARY_OPER(st, "bool", oper, "bool", symbol, ub)
        s2 == DO_BINARY_OPER(s1, "uint64", oper, "bool", symbol, ub)
        s3 == DO_BINARY_OPER(s2, "int64", oper, "bool", symbol, ub)
    IN DO_BINARY_OPER(s3, "real64", oper, "bool", symbol, ub)

equ_expression_c(st, symbol, ub) == Relational(st, "==", symbol, ub)

notequ_expression_c(st, symbol, ub) == Relational(st, "!=", symbol, ub)

\* < taken for <=
lt_expression_c_or_equal(st, symbol, ub) == Relational(st, "<=", symbol, ub)

lt_expression_c(st, symbol, ub) == Relational(st, "<", symbol, ub)

gt_expression_c(st, symbol, ub) == Relational(st, ">", symbol, ub)

le_expression_c(st, symbol, ub) == Relational(st, "<=", symbol, ub)

ge_expression_c(st, symbol, ub) == Relational(st, ">=", symbol, ub)

\* variant: the int64 sum is computed only beside a valid uint64 sum
add_expression_c_chained(st, symbol, ub) ==
    LET l  == l_exp(symbol)
        r  == r_exp(symbol)
        s1 == DO_BINARY_OPER(st, "uint64", "+", "uint64", symbol, ub)
        s2 == CHECK_OVERFLOW_uint64_SUM(s1, symbol, l, r)
        s3 == IF VALID_CVALUE(s2, "uint64", symbol)
              THEN DO_BINARY_OPER(s2, "int64", "+", "int64", symbol, ub)
              ELSE s2
        s4 == CHECK_OVERFLOW_int64_SUM(s3, symbol, l, r)
        s5 == DO_BINARY_OPER(s4, "real64", "+", "real64", symbol, ub)
    IN CHECK_OVERFLOW_real64(s5, symbol)

add_expression_c(st, symbol, ub) ==
    LET l  == l_exp(symbol)
        r  == r_exp(symbol)
        s1 == DO_BINARY_OPER(st, "uint64", "+", "uint64", symbol, ub)
        s2 == CHECK_OVERFLOW_uint64_SUM(s1, symbol, l, r)
        s3 == DO_BINARY_OPER(s2, "int64", "+", "int64", symbol, ub)
        s4 == CHECK_OVERFLOW_int64_SUM(s3, symbol, l, r)
        s5 == DO_BINARY_OPER(s4, "real64", "+", "real64", symbol, ub)
    IN CHECK_OVERFLOW_real64(s5, symbol)

\* the unsigned difference is not tested for overflow
sub_expression_c_uint64_unchecked(st, symbol, ub) ==
    LET l  == l_exp(symbol)
        r  == r_exp(symbol)
        s1 == DO_BINARY_OPER(st, "uint64", "-", "uint64", symbol, ub)
        s3 == DO_BINARY_OPER(s1, "int64", "-", "int64", symbol, ub)
        s4 == CHECK_OVERFLOW_int64_SUB(s3, symbol, l, r)
        s5 == DO_BINARY_OPER(s4, "real64", "-", "real64", symbol, ub)
    IN CHECK_OVERFLOW_real64(s5, symbol)

sub_expression_c(st, symbol, ub) ==
    LET l  == l_exp(symbol)
        r  == r_exp(symbol)
        s1 == DO_BINARY_OPER(st, "uint64", "-", "uint64", symbol, ub)
        s2 == CHECK_OVERFLOW_uint64_SUB(s1, symbol, l, r)
        s3 == DO_BINARY_OPER(s2, "int64", "-", "int64", symbol, ub)
        s4 == CHECK_OVERFLOW_int64_SUB(s3, symbol, l, r)
        s5 == DO_BINARY_OPER(s4, "real64", "-", "real64", symbol, ub)
    IN CHECK_OVERFLOW_real64(s5, symbol)

mul_expression_c(st, symbol, ub) ==
    LET l  == l_exp(symbol)
        r  == r_exp(symbol)
        s1 == DO_BINARY_OPER(st, "uint64", "*", "uint64", symbol, ub)
        s2 == CHECK_OVERFLOW_uint64_MUL(s1, symbol, l, r, ub)
        s3 == DO_BINARY_OPER(s2, "int64", "*", "int64", symbol, ub)
        s4 == CHECK_OVERFLOW_int64_MUL(s3, symbol, l, r)
        s5 == DO_BINARY_OPER(s4, "real64", "*", "real64", symbol, ub)
    IN CHECK_OVERFLOW_real64(s5, symbol)

\* variant: the quotient by zero is set to 0
DivByZeroIsZero(st, dtype, symbol) == SET_CVALUE(NEW_CVALUE(st, dtype, symbol), dtype, symbol, 0)

\* NEW_CVALUE(dtype, symbol); SET_OVFLOW(dtype, symbol);
DivByZero(st, dtype, symbol) == SET_OVFLOW(NEW_CVALUE(st, dtype, symbol), dtype, symbol)

div_expression_c(st, symbol, ub) ==
    LET l  == l_exp(symbol)
        r  == r_exp(symbol)
        s1 == IF ISZERO_CVALUE(st, "uint64", r) THEN DivByZero(st, "uint64", symbol)
              ELSE CHECK_OVERFLOW_uint64_DIV(
                       DO_BINARY_OPER(st, "uint64", "/", "uint64", symbol, ub), symbol, l, r)
        s2 == IF ISZERO_CVALUE(s1, "int64", r) THEN DivByZero(s1, "int64", symbol)
              ELSE CHECK_OVERFLOW_int64_DIV(
                       DO_BINARY_OPER(s1, "int64", "/", "int64", symbol, ub), symbol, l, r)
    IN IF ISZERO_CVALUE(s2, "real64", r) THEN DivByZero(s2, "real64", symbol)
       ELSE CHECK_OVERFLOW_real64(
                DO_BINARY_OPER(s2, "real64", "/", "real64", symbol, ub), symbol)

\* variant: the remainder by zero is marked overflow
ModByZeroOverflows(st, dtype, symbol) == SET_OVFLOW(NEW_CVALUE(st, dtype, symbol), dtype, symbol)

\* NEW_CVALUE(dtype, symbol); SET_CVALUE(dtype, symbol, 0);
ModByZero(st, dtype, symbol) == SET_CVALUE(NEW_CVALUE(st, dtype, symbol), dtype, symbol, 0)

mod_expression_c(st, symbol, ub) ==
    LET l  == l_exp(symbol)
        r  == r_exp(symbol)
        s1 == IF ISZERO_CVALUE(st, "uint64", r) THEN ModByZero(st, "uint64", symbol)
              ELSE CHECK_OVERFLOW_uint64_MOD(
                       DO_BINARY_OPER(st, "uint64", "%", "uint64", symbol, ub), symbol, l, r)
    IN IF ISZERO_CVALUE(s1, "int64", r) THEN ModByZero(s1, "int64", symbol)
       ELSE CHECK_OVERFLOW_int64_MOD(
                DO_BINARY_OPER(s1, "int64", "%", "int64", symbol, ub), symbol, l, r)

\* only the int64 value of the exponent is used
power_expression_c_int64_only(st, symbol, ub) ==
    LET l  == l_exp(symbol)
        r  == r_exp(symbol)
        s1 == IF VALID_CVALUE(st, "real64", l) /\ VALID_CVALUE(st, "int64", r)
              THEN SET_CVALUE(NEW_CVALUE(st, "real64", symbol), "real64", symbol,
                              pow(GET_CVALUE(st, "real64", l), GET_CVALUE(st, "int64", r)))
              ELSE st
    IN CHECK_OVERFLOW_real64(s1, symbol)

power_expression_c(st, symbol, ub) ==
    LET l  == l_exp(symbol)
        r  == r_exp(symbol)
        s1 == IF VALID_CVALUE(st, "real64", l) /\ VALID_CVALUE(st, "int64", r)
              THEN SET_CVALUE(NEW_CVALUE(st, "real64", symbol), "real64", symbol,
                              pow(GET_CVALUE(st, "real64", l), GET_CVALUE(st, "int64", r)))
              ELSE st
        s2 == IF VALID_CVALUE(s1, "real64", l) /\ VALID_CVALUE(s1, "uint64", r)
              THEN SET_CVALUE(NEW_CVALUE(s1, "real64", symbol), "real64", symbol,
                              pow(GET_CVALUE(s1, "real64", l), GET_CVALUE(s1, "uint64", r)))
              ELSE s1
    IN CHECK_OVERFLOW_real64(s2, symbol)

\* the unary minus with the special case of the negated literal
neg_expression_c_with_corner(st, symbol, ub) ==
    LET s1 == DO_UNARY_OPER(st, "int64", "-", exp(symbol), symbol, ub)
        s2 == CHECK_OVERFLOW_int64_NEG(s1, symbol, exp(symbol))
        s3 == DO_UNARY_OPER(s2, "real64", "-", exp(symbol), symbol, ub)
        s4 == CHECK_OVERFLOW_real64(s3, symbol)
    IN IF /\ VALID_CVALUE(s4, "uint64", exp(symbol))
          /\ GET_CVALUE(s4, "uint64", exp(symbol)) = NEG_INT64_MIN
       THEN SET_CVALUE(NEW_CVALUE(s4, "int64", symbol), "int64", symbol, INT64_MIN)
       ELSE s4

neg_expression_c(st, symbol, ub) ==
    LET s1 == DO_UNARY_OPER(st, "int64", "-", exp(symbol), symbol, ub)
        s2 == CHECK_OVERFLOW_int64_NEG(s1, symbol, exp(symbol))
        s3 == DO_UNARY_OPER(s2, "real64", "-", exp(symbol), symbol, ub)
    IN CHECK_OVERFLOW_real64(s3, symbol)

not_expression_c(st, symbol, ub) ==
    LET s1 == DO_UNARY_OPER(st, "bool", "!", exp(symbol), symbol, ub)
    IN DO_UNARY_OPER(s1, "uint64", "~", exp(symbol), symbol, ub)

\* a symbol that is no literal and no expression of B 3.1 (a variable):
\* the pass has no visit method for it and leaves it as it is
symbolic_variable_c(st, symbol, ub) == st

---------------------------------------------------------------------------
(* The abstract syntax trees the pass is run on.  A tree has at most seven  *)
(* symbols: symbol n has its children at 2n and 2n+1.  A literal carries    *)
(* its text in value; math is the number the text was written for, kept     *)
(* beside the text to state what the pass should find, and never read by    *)
(* the pass.                                                                *)

Nodes == 1..7

Node(kind, value, math) == [kind |-> kind, value |-> value, math |-> math]

Absent == Node("none", <<>>, 0)

\* a subtree of depth two at most: its top symbol and the children of it
Sub(top, l, r) == [top |-> top, l |-> l, r |-> r]

NoSub == Sub(Absent, Absent, Absent)

Leaf(n) == Sub(n, Absent, Absent)

MkTree(root, A, B) ==
    [n \in Nodes |->
        CASE n = 1 -> root
          [] n = 2 -> A.top
          [] n = 3 -> B.top
          [] n = 4 -> A.l
          [] n = 5 -> A.r
          [] n = 6 -> B.l
          [] n = 7 -> B.r]

\* the numbers written as integer literals: around zero and around the
\* limits of int64 and uint64
IntValues == {0, 1, 2, INT64_MAX, INT64_MAX + 1, UINT64_MAX, UINT64_MAX + 1}

IntLit(kind, v, sep) ==
    Node(kind, Prefix(kind) \o (IF sep THEN WithSep(Digits(v, Base(kind))) ELSE Digits(v, Base(kind))), v)

DecLeaves == {IntLit("integer_c", v, FALSE) : v \in IntValues}

BasedLeaves ==
    {IntLit(k, v, sep) : k \in {"integer_c", "hex_integer_c", "octal_integer_c", "binary_integer_c"},
                         v \in IntValues, sep \in BOOLEAN}

RealLeaves ==
    { Node("real_c", <<"0", ".", "0">>, 0),
      Node("real_c", <<"1", ".", "0">>, 0),
      Node("real_c", <<"2", ".", "5">>, 0),
      Node("real_c", <<"9", ".", "0", "E", "4">>, 0) }

BoolLeaves == {Node("boolean_true_c", <<>>, 0), Node("boolean_false_c", <<>>, 0)}

VarLeaf == Node("symbolic_variable_c", <<>>, 0)

Op(kind) == Node(kind, <<>>, 0)

BinaryKinds ==
    {"or_expression_c", "xor_expression_c", "and_expression_c",
     "equ_expression_c", "notequ_expression_c", "lt_expression_c",
     "gt_expression_c", "le_expression_c", "ge_expression_c",
     "add_expression_c", "sub_expression_c", "mul_expression_c",
     "div_expression_c", "mod_expression_c", "power_expression_c"}

UnaryKinds ==
    {"neg_real_c", "neg_integer_c", "integer_literal_c", "real_literal_c",
     "boolean_literal_c", "neg_expression_c", "not_expression_c"}

\* the operands of the expressions: the literals, the variable, negated
\* and typed literals, and two expressions over literals
Operands ==
    {Leaf(n) : n \in DecLeaves \cup RealLeaves \cup BoolLeaves \cup {VarLeaf}}
    \cup {Sub(Op("neg_integer_c"), IntLit("integer_c", v, FALSE), Absent) :
              v \in {1, INT64_MAX, INT64_MAX + 1}}
    \cup {Sub(Op("integer_literal_c"), IntLit("integer_c", 1, FALSE), Absent),
          Sub(Op("not_expression_c"), IntLit("integer_c", UINT64_MAX, FALSE), Absent),
          Sub(Op("sub_expression_c"), IntLit("integer_c", INT64_MAX + 1, FALSE),
                                      IntLit("integer_c", INT64_MAX + 1, FALSE))}

LiteralTrees ==
    {MkTree(n, NoSub, NoSub) : n \in BasedLeaves \cup RealLeaves \cup BoolLeaves \cup {VarLeaf}}

TypedLiteralTrees ==
    {MkTree(Op("integer_literal_c"), Leaf(n), NoSub) : n \in BasedLeaves}
    \cup {MkTree(Op("integer_literal_c"), Sub(Op("neg_integer_c"), n, Absent), NoSub) : n \in DecLeaves}
    \cup {MkTree(Op("neg_integer_c"), Leaf(n), NoSub) : n \in DecLeaves}
    \cup {MkTree(Op("bit_string_literal_c"), Leaf(n), NoSub) : n \in BasedLeaves}
    \cup {MkTree(Op("real_literal_c"), Leaf(n), NoSub) : n \in RealLeaves}
    \cup {MkTree(Op("real_literal_c"), Sub(Op("neg_real_c"), n, Absent), NoSub) : n \in RealLeaves}
    \cup {MkTree(Op("neg_real_c"), Leaf(n), NoSub) : n \in RealLeaves}
    \cup {MkTree(Op("boolean_literal_c"), Leaf(n), NoSub) : n \in BoolLeaves}

ExpressionTrees ==
    {MkTree(Op(k), A, B) : k \in BinaryKinds, A \in Operands, B \in Operands}
    \cup {MkTree(Op(k), A, NoSub) : k \in {"neg_expression_c", "not_expression_c"}, A \in Operands}

Trees == LiteralTrees \cup TypedLiteralTrees \cup ExpressionTrees

---------------------------------------------------------------------------
(* The pass as a state machine *)

NoValues == [n \in Nodes |-> [d \in dtypes |-> NullSlot(d)]]

NoWrites == [n \in Nodes |-> [d \in dtypes |-> <<>>]]

Init ==
    /\ ast \in Trees
    /\ cv = NoValues
    /\ stack = <<>>
    /\ run = 0
    /\ done_cv = <<>>
    /\ wlog = NoWrites
    /\ unmet = {}
    /\ post = <<>>
    /\ errno = 0
    /\ build = Undecided
    /\ aborted = "no"
    /\ enum_decl = [name |-> "", values |-> <<>>]
    /\ text = <<>>

Top == stack[Len(stack)]

\* the visit method of the symbol on top of the stack is the one of kind
Visiting(kind) ==
    /\ aborted = "no"
    /\ stack # <<>>
    /\ ast[Top.sym].kind = kind

\* the right operand of a binary expression is visited before the left one
Accept_right_first ==
    /\ stack' = Append([stack EXCEPT ![Len(stack)].pc = @ + 1],
                       [sym |-> IF ast[Top.sym].kind \in BinaryKinds
                                THEN 2 * Top.sym + 1 - Top.pc
                                ELSE 2 * Top.sym + Top.pc,
                        pc |-> 0])
    /\ UNCHANGED <<ast, cv, run, done_cv, wlog, unmet, post, errno, build, aborted, enum_decl, text>>

\* symbol->l_exp->accept(*this), symbol->r_exp->accept(*this): the child
\* the method has come to is visited next
Accept ==
    /\ stack' = Append([stack EXCEPT ![Len(stack)].pc = @ + 1],
                       [sym |-> 2 * Top.sym + Top.pc, pc |-> 0])
    /\ UNCHANGED <<ast, cv, run, done_cv, wlog, unmet, post, errno, build, aborted, enum_decl, text>>

\* the rest of the method has run and left st; the method returns, unless
\* the process ended in it
Return(st) ==
    /\ cv' = st.cv
    /\ wlog' = st.wlog
    /\ unmet' = st.rd
    /\ errno' = st.errno
    /\ aborted' = st.ab
    /\ stack' = IF st.ab = "no" THEN SubSeq(stack, 1, Len(stack) - 1) ELSE stack
    /\ done_cv' = IF st.ab = "no" /\ Len(stack) = 1 THEN Append(done_cv, st.cv) ELSE done_cv
    /\ post' = IF st.ab = "no" THEN Append(post, Top.sym) ELSE post
    /\ UNCHANGED <<ast, run, enum_decl, text>>

Now == [cv |-> cv, wlog |-> wlog, rd |-> unmet, errno |-> errno, ab |-> "no"]

\* the statements of a visit method after its accept calls run; outcome is
\* what they leave in each build.  The first visit whose outcome depends on
\* the build settles the build for the rest of the behaviour, later runs of
\* the pass included
Finish(outcome) ==
    IF build # Undecided
    THEN Return(outcome[build]) /\ build' = build
    ELSE IF Cardinality({outcome[ub] : ub \in UBOutcomes}) = 1
         THEN Return(outcome[CHOOSE ub \in UBOutcomes : TRUE]) /\ build' = build
         ELSE \E ub \in UBOutcomes : Return(outcome[ub]) /\ build' = ub

\* the entry point: one run of the pass over the tree, from its root
fold ==
    /\ aborted = "no"
    /\ stack = <<>>
    /\ run < MaxRuns
    /\ run' = run + 1
    /\ stack' = <<[sym |-> 1, pc |-> 0]>>
    /\ wlog' = NoWrites
    /\ unmet' = {}
    /\ post' = <<>>
    /\ UNCHANGED <<ast, cv, done_cv, errno, build, aborted, enum_decl, text>>

visit_real_c ==
    /\ Visiting("real_c")
    /\ Finish([ub \in UBOutcomes |-> real_c(Now, Top.sym, ub)])

visit_integer_c ==
    /\ Visiting("integer_c")
    /\ Finish([ub \in UBOutcomes |-> integer_c(Now, Top.sym, ub)])

visit_neg_real_c ==
    /\ Visiting("neg_real_c")
    /\ \/ Top.pc = 0 /\ Accept
       \/ Top.pc = 1 /\ Finish([ub \in UBOutcomes |-> neg_real_c(Now, Top.sym, ub)])

visit_neg_integer_c ==
    /\ Visiting("neg_integer_c")
    /\ \/ Top.pc = 0 /\ Accept
       \/ Top.pc = 1 /\ Finish([ub \in UBOutcomes |-> neg_integer_c(Now, Top.sym, ub)])

visit_binary_integer_c ==
    /\ Visiting("binary_integer_c")
    /\ Finish([ub \in UBOutcomes |-> binary_integer_c(Now, Top.sym, ub)])

visit_octal_integer_c ==
    /\ Visiting("octal_integer_c")
    /\ Finish([ub \in UBOutcomes |-> octal_integer_c(Now, Top.sym, ub)])

visit_hex_integer_c ==
    /\ Visiting("hex_integer_c")
    /\ Finish([ub \in UBOutcomes |-> hex_integer_c(Now, Top.sym, ub)])

visit_integer_literal_c ==
    /\ Visiting("integer_literal_c")
    /\ \/ Top.pc = 0 /\ Accept
       \/ Top.pc = 1 /\ Finish([ub \in UBOutcomes |-> integer_literal_c(Now, Top.sym, ub)])

visit_real_literal_c ==
    /\ Visiting("real_literal_c")
    /\ \/ Top.pc = 0 /\ Accept
       \/ Top.pc = 1 /\ Finish([ub \in UBOutcomes |-> real_literal_c(Now, Top.sym, ub)])

\* variant: the literal below the bit-string literal is visited
visit_bit_string_literal_c_descending ==
    /\ Visiting("bit_string_literal_c")
    /\ \/ Top.pc = 0 /\ Accept
       \/ Top.pc = 1 /\ Finish([ub \in UBOutcomes |-> bit_string_literal_c(Now, Top.sym, ub)])

visit_bit_string_literal_c ==
    /\ Visiting("bit_string_literal_c")
    /\ Finish([ub \in UBOutcomes |-> bit_string_literal_c(Now, Top.sym, ub)])

visit_boolean_literal_c ==
    /\ Visiting("boolean_literal_c")
    /\ \/ Top.pc = 0 /\ Accept
       \/ Top.pc = 1 /\ Finish([ub \in UBOutcomes |-> boolean_literal_c(Now, Top.sym, ub)])

visit_boolean_true_c ==
    /\ Visiting("boolean_true_c")
    /\ Finish([ub \in UBOutcomes |-> boolean_true_c(Now, Top.sym, ub)])

visit_boolean_false_c ==
    /\ Visiting("boolean_false_c")
    /\ Finish([ub \in UBOutcomes |-> boolean_false_c(Now, Top.sym, ub)])

visit_or_expression_c ==
    /\ Visiting("or_expression_c")
    /\ \/ Top.pc < 2 /\ Accept
       \/ Top.pc = 2 /\ Finish([ub \in UBOutcomes |-> or_expression_c(Now, Top.sym, ub)])

visit_xor_expression_c ==
    /\ Visiting("xor_expression_c")
    /\ \/ Top.pc < 2 /\ Accept
       \/ Top.pc = 2 /\ Finish([ub \in UBOutcomes |-> xor_expression_c(Now, Top.sym, ub)])

visit_and_expression_c ==
    /\ Visiting("and_expression_c")
    /\ \/ Top.pc < 2 /\ Accept
       \/ Top.pc = 2 /\ Finish([ub \in UBOutcomes |-> and_expression_c(Now, Top.sym, ub)])

visit_equ_expression_c ==
    /\ Visiting("equ_expression_c")
    /\ \/ Top.pc < 2 /\ Accept
       \/ Top.pc = 2 /\ Finish([ub \in UBOutcomes |-> equ_expression_c(Now, Top.sym, ub)])

visit_notequ_expression_c ==
    /\ Visiting("notequ_expression_c")
    /\ \/ Top.pc < 2 /\ Accept
       \/ Top.pc = 2 /\ Finish([ub \in UBOutcomes |-> notequ_expression_c(Now, Top.sym, ub)])

visit_lt_expression_c ==
    /\ Visiting("lt_expression_c")
    /\ \/ Top.pc < 2 /\ Accept
       \/ Top.pc = 2 /\ Finish([ub \in UBOutcomes |-> lt_expression_c(Now, Top.sym, ub)])

visit_gt_expression_c ==
    /\ Visiting("gt_expression_c")
    /\ \/ Top.pc < 2 /\ Accept
       \/ Top.pc = 2 /\ Finish([ub \in UBOutcomes |-> gt_expression_c(Now, Top.sym, ub)])

visit_le_expression_c ==
    /\ Visiting("le_expression_c")
    /\ \/ Top.pc < 2 /\ Accept
       \/ Top.pc = 2 /\ Finish([ub \in UBOutcomes |-> le_expression_c(Now, Top.sym, ub)])

visit_ge_expression_c ==
    /\ Visiting("ge_expression_c")
    /\ \/ Top.pc < 2 /\ Accept
       \/ Top.pc = 2 /\ Finish([ub \in UBOutcomes |-> ge_expression_c(Now, Top.sym, ub)])

visit_add_expression_c ==
    /\ Visiting("add_expression_c")
    /\ \/ Top.pc < 2 /\ Accept
       \/ Top.pc = 2 /\ Finish([ub \in UBOutcomes |-> add_expression_c(Now, Top.sym, ub)])

visit_sub_expression_c ==
    /\ Visiting("sub_expression_c")
    /\ \/ Top.pc < 2 /\ Accept
       \/ Top.pc = 2 /\ Finish([ub \in UBOutcomes |-> sub_expression_c(Now, Top.sym, ub)])

visit_mul_expression_c ==
    /\ Visiting("mul_expression_c")
    /\ \/ Top.pc < 2 /\ Accept
       \/ Top.pc = 2 /\ Finish([ub \in UBOutcomes |-> mul_expression_c(Now, Top.sym, ub)])

visit_div_expression_c ==
    /\ Visiting("div_expression_c")
    /\ \/ Top.pc < 2 /\ Accept
       \/ Top.pc = 2 /\ Finish([ub \in UBOutcomes |-> div_expression_c(Now, Top.sym, ub)])

visit_mod_expression_c ==
    /\ Visiting("mod_expression_c")
    /\ \/ Top.pc < 2 /\ Accept
       \/ Top.pc = 2 /\ Finish([ub \in UBOutcomes |-> mod_expression_c(Now, Top.sym, ub)])

visit_power_expression_c ==
    /\ Visiting("power_expression_c")
    /\ \/ Top.pc < 2 /\ Accept
       \/ Top.pc = 2 /\ Finish([ub \in UBOutcomes |-> power_expression_c(Now, Top.sym, ub)])

visit_neg_expression_c ==
    /\ Visiting("neg_expression_c")
    /\ \/ Top.pc = 0 /\ Accept
       \/ Top.pc = 1 /\ Finish([ub \in UBOutcomes |-> neg_expression_c(Now, Top.sym, ub)])

visit_not_expression_c ==
    /\ Visiting("not_expression_c")
    /\ \/ Top.pc = 0 /\ Accept
       \/ Top.pc = 1 /\ Finish([ub \in UBOutcomes |-> not_expression_c(Now, Top.sym, ub)])

visit_symbolic_variable_c ==
    /\ Visiting("symbolic_variable_c")
    /\ Finish([ub \in UBOutcomes |-> symbolic_variable_c(Now, Top.sym, ub)])

Next ==
    \/ fold
    \/ visit_real_c
    \/ visit_integer_c
    \/ visit_neg_real_c
    \/ visit_neg_integer_c
    \/ visit_binary_integer_c
    \/ visit_octal_integer_c
    \/ visit_hex_integer_c
    \/ visit_integer_literal_c
    \/ visit_real_literal_c
    \/ visit_bit_string_literal_c
    \/ visit_boolean_literal_c
    \/ visit_boolean_true_c
    \/ visit_boolean_false_c
    \/ visit_or_expression_c
    \/ visit_xor_expression_c
    \/ visit_and_expression_c
    \/ visit_equ_expression_c
    \/ visit_notequ_expression_c
    \/ visit_lt_expression_c
    \/ visit_gt_expression_c
    \/ visit_le_expression_c
    \/ visit_ge_expression_c
    \/ visit_add_expression_c
    \/ visit_sub_expression_c
    \/ visit_mul_expression_c
    \/ visit_div_expression_c
    \/ visit_mod_expression_c
    \/ visit_power_expression_c
    \/ visit_neg_expression_c
    \/ visit_not_expression_c
    \/ visit_symbolic_variable_c

Spec == Init /\ [][Next]_vars

---------------------------------------------------------------------------
(* The pass on integer arithmetic alone: every integer the literals can    *)
(* denote, up to one above UINT64_MAX, and every negated literal down to   *)
(* INT64_MIN, as the operands of +, -, *, /, MOD and the unary minus.      *)

ArithOperands ==
    {Leaf(IntLit("integer_c", v, FALSE)) : v \in 0..(UINT64_MAX + 1)}
    \cup {Sub(Op("neg_integer_c"), IntLit("integer_c", v, FALSE), Absent) :
              v \in 1..(INT64_MAX + 1)}

ArithTrees ==
    {MkTree(Op(k), A, B) : k \in {"add_expression_c", "sub_expression_c", "mul_expression_c",
                                  "div_expression_c", "mod_expression_c"},
                           A \in ArithOperands, B \in ArithOperands}
    \cup {MkTree(Op("neg_expression_c"), A, NoSub) : A \in ArithOperands}

InitArith ==
    /\ ast \in ArithTrees
    /\ cv = NoValues
    /\ stack = <<>>
    /\ run = 0
    /\ done_cv = <<>>
    /\ wlog = NoWrites
    /\ unmet = {}
    /\ post = <<>>
    /\ errno = 0
    /\ build = Undecided
    /\ aborted = "no"
    /\ enum_decl = [name |-> "", values |-> <<>>]
    /\ text = <<>>

NextArith ==
    \/ fold
    \/ visit_integer_c
    \/ visit_neg_integer_c
    \/ visit_add_expression_c
    \/ visit_sub_expression_c
    \/ visit_mul_expression_c
    \/ visit_div_expression_c
    \/ visit_mod_expression_c
    \/ visit_neg_expression_c

SpecArith == InitArith /\ [][NextArith]_vars

---------------------------------------------------------------------------
(* The pass over power expressions: every base with every exponent *)

PowerTrees ==
    LET Real(str) == Node("real_c", str, 0)
        Bases ==
            {Leaf(Real(str)) : str \in {<<"0", ".", "0">>, <<"1", ".", "0">>,
                                        <<"2", ".", "0">>, <<"2", ".", "5">>,
                                        <<"9", ".", "0", "E", "4">>}}
            \cup {Sub(Op("neg_real_c"), Real(<<"2", ".", "0">>), Absent),
                  Leaf(IntLit("integer_c", 2, FALSE)), Leaf(VarLeaf)}
        Exponents ==
            ArithOperands \cup {Leaf(Real(<<"0", ".", "5">>)), Leaf(VarLeaf)}
    IN {MkTree(Op("power_expression_c"), A, B) : A \in Bases, B \in Exponents}

InitPower ==
    /\ ast \in PowerTrees
    /\ cv = NoValues
    /\ stack = <<>>
    /\ run = 0
    /\ done_cv = <<>>
    /\ wlog = NoWrites
    /\ unmet = {}
    /\ post = <<>>
    /\ errno = 0
    /\ build = Undecided
    /\ aborted = "no"
    /\ enum_decl = [name |-> "", values |-> <<>>]
    /\ text = <<>>

NextPower ==
    \/ fold
    \/ visit_real_c
    \/ visit_neg_real_c
    \/ visit_integer_c
    \/ visit_neg_integer_c
    \/ visit_symbolic_variable_c
    \/ visit_power_expression_c

SpecPower == InitPower /\ [][NextPower]_vars

---------------------------------------------------------------------------
(* The generation of the conversion functions of an enumerated type.  A    *)
(* generated function is [name, in, out, body], its body the sequence of   *)
(* its  IF IN = test THEN name := assign; RETURN; END_IF;  statements;     *)
(* names and literals are the sequences of the pieces of their text.       *)

getIntegerName(isSigned, size) ==
    (IF ~isSigned THEN <<"U">> ELSE <<>>)
    \o (CASE size = 8  -> <<"S">>
          [] size = 16 -> <<>>
          [] size = 32 -> <<"D">>
          [] size = 64 -> <<"L">>
          [] OTHER     -> <<>>)
    \o <<"INT">>

\* count is 0 in the first iteration and is incremented at the end of each
printIntegerToEnum(enumerateName, enumerateValues, isSigned, size) ==
    LET integerType == getIntegerName(isSigned, size)
    IN [name |-> integerType \o <<"_TO_", enumerateName>>,
        in   |-> integerType,
        out  |-> <<enumerateName>>,
        body |-> [i \in 1..Len(enumerateValues) |->
                     LET count == i - 1
                     IN [test |-> Digits(count, 10), assign |-> <<enumerateValues[i]>>]]]

printEnumToInteger(enumerateName, enumerateValues, isSigned, size) ==
    LET integerType == getIntegerName(isSigned, size)
    IN [name |-> <<enumerateName, "_TO_">> \o integerType,
        in   |-> <<enumerateName>>,
        out  |-> integerType,
        body |-> [i \in 1..Len(enumerateValues) |->
                     LET count == i - 1
                     IN [test |-> <<enumerateValues[i]>>, assign |-> Digits(count, 10)]]]

\* get_declaration(root) over an enumerated type declaration: the text is
\* emptied, then the functions from and to STRING and, for the sizes 8,
\* 16, 32, 64, from and to the signed and the unsigned integer are printed
visit_enumerated_type_declaration_c ==
    LET enumerateName   == enum_decl.name
        enumerateValues == enum_decl.values
        printStringToEnum ==
            [name |-> <<"STRING", "_TO_", enumerateName>>,
             in   |-> <<"STRING">>,
             out  |-> <<enumerateName>>,
             body |-> [i \in 1..Len(enumerateValues) |->
                          [test   |-> <<"'", enumerateValues[i], "'">>,
                           assign |-> <<enumerateValues[i]>>]]]
        printEnumToString ==
            [name |-> <<enumerateName, "_TO_", "STRING">>,
             in   |-> <<enumerateName>>,
             out  |-> <<"STRING">>,
             body |-> [i \in 1..Len(enumerateValues) |->
                          [test   |-> <<enumerateValues[i]>>,
                           assign |-> <<"'", enumerateValues[i], "'">>]]]
        ForSize(s) ==
            << printIntegerToEnum(enumerateName, enumerateValues, TRUE, s),
               printEnumToInteger(enumerateName, enumerateValues, TRUE, s),
               printIntegerToEnum(enumerateName, enumerateValues, FALSE, s),
               printEnumToInteger(enumerateName, enumerateValues, FALSE, s) >>
    IN /\ text' = <<printStringToEnum, printEnumToString>>
                   \o ForSize(8) \o ForSize(16) \o ForSize(32) \o ForSize(64)
       /\ UNCHANGED <<ast, cv, stack, run, done_cv, wlog, unmet, post, errno, build,
                      aborted, enum_decl>>

\* the call of a generated function: the first statement whose test is the
\* argument assigns the result and returns; <<>> when no statement does
Call(f, arg) ==
    LET hits == {i \in 1..Len(f.body) : f.body[i].test = arg}
    IN IF hits = {} THEN <<>>
       ELSE <<f.body[CHOOSE i \in hits : \A j \in hits : i <= j].assign>>

InitEnum ==
    /\ ast = [n \in Nodes |-> Absent]
    /\ cv = NoValues
    /\ stack = <<>>
    /\ run = 0
    /\ done_cv = <<>>
    /\ wlog = NoWrites
    /\ unmet = {}
    /\ post = <<>>
    /\ errno = 0
    /\ build = Undecided
    /\ aborted = "no"
    /\ text = <<>>
    /\ \E values \in UNION {[1..n -> {"RED", "GREEN", "BLUE", "CYAN", "BLACK"}] : n \in 1..MaxEnum} :
           /\ \A i \in 1..Len(values) : \A j \in 1..Len(values) :
                  values[i] = values[j] => i = j
           /\ enum_decl = [name |-> "COLOR", values |-> values]

SpecEnum == InitEnum /\ [][visit_enumerated_type_declaration_c]_vars

---------------------------------------------------------------------------
(* Vocabulary of the properties *)

\* the three statuses of the specification: a slot that was never created
\* and a slot created and not yet set are both undefined
Undefined(slot) == slot.status \in {"NULL", "cs_undefined"}

Defined(slot) == slot.status = "cs_const_value"

Overflow(slot) == slot.status = "cs_overflow"

DefinedAs(slot, v) == Defined(slot) /\ slot.value = v

Kind(n) == ast[n].kind

\* a run of the pass over the tree has completed and none is under way
Folded == run >= 1 /\ stack = <<>> /\ aborted = "no"

\* the symbols of the tree the traversal comes to: the root, and the
\* children of the symbols whose visit method visits its children
RECURSIVE Visited(_)
Visited(n) ==
    /\ Kind(n) # "none"
    /\ n = 1 \/ (Kind(n \div 2) # "bit_string_literal_c" /\ Visited(n \div 2))

\* an integer literal whose text denotes zero
IsZeroLiteral(n) == IsIntegerKind(Kind(n)) /\ ast[n].math = 0

\* no variable among the symbols below n, n included
RECURSIVE IsConstant(_)
IsConstant(n) ==
    /\ Kind(n) # "symbolic_variable_c"
    /\ \A c \in {2 * n, 2 * n + 1} : (c \in Nodes /\ Kind(c) # "none") => IsConstant(c)

ArithTypes == {"uint64", "int64", "real64"}

---------------------------------------------------------------------------
(* C1: MOD by the literal zero.  After folding, every MOD symbol whose     *)
(* divisor is the integer literal 0 and whose dividend is a constant has   *)
(* its uint64 and its int64 value defined and equal to 0.                  *)
C1_ModByZeroIsZero ==
    Folded =>
        \A n \in Nodes :
            (Kind(n) = "mod_expression_c" /\ IsZeroLiteral(r_exp(n)) /\ IsConstant(l_exp(n)))
                => /\ DefinedAs(cv[n]["uint64"], 0)
                   /\ DefinedAs(cv[n]["int64"], 0)

\* reached: x MOD 0 folded, for a dividend whose own int64 value overflowed
C1_Witness ==
    /\ Folded
    /\ Kind(1) = "mod_expression_c" /\ IsZeroLiteral(3) /\ IsConstant(2)
    /\ Overflow(cv[2]["int64"]) /\ Defined(cv[2]["uint64"])
    /\ DefinedAs(cv[1]["int64"], 0) /\ DefinedAs(cv[1]["uint64"], 0)

---------------------------------------------------------------------------
(* C2: division by a constant zero.  After folding a division symbol whose *)
(* divisor has a value defined as zero: for each of uint64, int64, real64, *)
(* the result is marked overflow where both operands have a defined value  *)
(* of that type (and is then never defined), and stays undefined where     *)
(* neither operand has one; the bool value stays undefined.                *)
C2_DivByZeroOverflows ==
    Folded =>
        \A n \in Nodes :
            (/\ Kind(n) = "div_expression_c"
             /\ \E d \in ArithTypes : DefinedAs(cv[r_exp(n)][d], 0))
                => /\ \A d \in ArithTypes :
                        /\ (Defined(cv[l_exp(n)][d]) /\ Defined(cv[r_exp(n)][d]))
                               => Overflow(cv[n][d])
                        /\ (~Defined(cv[l_exp(n)][d]) /\ ~Defined(cv[r_exp(n)][d]))
                               => Undefined(cv[n][d])
                   /\ Undefined(cv[n]["bool"])

\* reached: 1.0 / 0.0 folded: real64 overflow, the integer values undefined
C2_Witness ==
    /\ Folded
    /\ Kind(1) = "div_expression_c"
    /\ DefinedAs(cv[3]["real64"], 0) /\ Defined(cv[2]["real64"])
    /\ Overflow(cv[1]["real64"])
    /\ Undefined(cv[1]["uint64"]) /\ Undefined(cv[1]["int64"])

---------------------------------------------------------------------------
(* C3: the negation corner.  After folding, a negated integer literal      *)
(* whose literal has overflowed int64 and has the uint64 value             *)
(* INT64_MAX + 1 has its int64 value defined and equal to INT64_MIN.       *)
C3_NegInt64Min ==
    Folded =>
        \A n \in Nodes :
            (/\ Kind(n) = "neg_integer_c" /\ Visited(n)
             /\ Overflow(cv[exp(n)]["int64"])
             /\ DefinedAs(cv[exp(n)]["uint64"], INT64_MAX + 1))
                => DefinedAs(cv[n]["int64"], INT64_MIN)

\* reached: the negated literal folded as an operand of an expression
C3_Witness ==
    /\ Folded
    /\ Kind(2) = "neg_integer_c" /\ ast[4].math = INT64_MAX + 1
    /\ Overflow(cv[4]["int64"])
    /\ DefinedAs(cv[2]["int64"], INT64_MIN)

---------------------------------------------------------------------------
\* the tree of the expression -9223372036854775808: a negated integer
\* literal over the decimal literal INT64_MAX + 1
IsMinusInt64MinTree ==
    /\ Kind(1) = "neg_integer_c"
    /\ Kind(2) = "integer_c" /\ ast[2].math = INT64_MAX + 1

(* C4, as claimed: after folding -9223372036854775808 the root has bool    *)
(* undefined, uint64 overflow, int64 defined INT64_MIN, real64 undefined.  *)
C4_AsClaimed ==
    (Folded /\ IsMinusInt64MinTree) =>
        /\ Undefined(cv[1]["bool"])
        /\ Overflow(cv[1]["uint64"])
        /\ DefinedAs(cv[1]["int64"], INT64_MIN)
        /\ Undefined(cv[1]["real64"])

(* C4, amended: after folding -9223372036854775808 the root has bool       *)
(* undefined, uint64 undefined (the negation of a literal writes no uint64 *)
(* value), int64 defined INT64_MIN, real64 undefined.                      *)
C4_RootOfMinusInt64Min ==
    (Folded /\ IsMinusInt64MinTree) =>
        /\ Undefined(cv[1]["bool"])
        /\ Undefined(cv[1]["uint64"])
        /\ DefinedAs(cv[1]["int64"], INT64_MIN)
        /\ Undefined(cv[1]["real64"])

\* reached: -9223372036854775808 folded, its literal with uint64 defined
C4_Witness ==
    /\ Folded /\ IsMinusInt64MinTree
    /\ DefinedAs(cv[2]["uint64"], INT64_MAX + 1)
    /\ cv[1]["uint64"].status = "NULL"
    /\ Defined(cv[1]["int64"])

---------------------------------------------------------------------------
\* the tree of the expression 1 AND 0
IsOneAndZeroTree ==
    /\ Kind(1) = "and_expression_c"
    /\ Kind(2) = "integer_c" /\ ast[2].math = 1
    /\ Kind(3) = "integer_c" /\ ast[3].math = 0

(* C5: after folding 1 AND 0 the root has bool defined false, uint64       *)
(* defined 0, int64 undefined and real64 undefined.                        *)
C5_OneAndZero ==
    (Folded /\ IsOneAndZeroTree) =>
        /\ DefinedAs(cv[1]["bool"], FALSE)
        /\ DefinedAs(cv[1]["uint64"], 0)
        /\ Undefined(cv[1]["int64"])
        /\ Undefined(cv[1]["real64"])

---------------------------------------------------------------------------
\* the quotient of a by b (b # 0) truncated toward zero, in the integers
ExactQuotient(a, b) ==
    CHOOSE q \in -Abs(a)..Abs(a) :
        /\ Abs(q) * Abs(b) <= Abs(a)
        /\ Abs(a) < (Abs(q) + 1) * Abs(b)
        /\ (q # 0 => ((q > 0) <=> ((a > 0) = (b > 0))))

\* the mathematical result of an arithmetic symbol on the integers a and b
ExactResult(kind, a, b) ==
    CASE kind = "add_expression_c" -> a + b
      [] kind = "sub_expression_c" -> a - b
      [] kind = "mul_expression_c" -> a * b
      [] kind = "div_expression_c" -> ExactQuotient(a, b)
      [] kind = "mod_expression_c" -> IF b = 0 THEN 0 ELSE a - ExactQuotient(a, b) * b

(* C6: overflow discipline.  After folding, a defined uint64 or int64      *)
(* value of an add, sub, mul, div, mod or neg symbol is the exact          *)
(* mathematical result of the operation on the operands' defined values of *)
(* that type: x MOD 0 is 0 whatever x, division and MOD truncate toward    *)
(* zero, and the negation of a literal is minus the number it denotes.     *)
C6_DefinedIsExact ==
    Folded =>
        \A n \in Nodes : \A d \in {"uint64", "int64"} :
            Defined(cv[n][d]) =>
                LET v == cv[n][d].value
                    l == cv[l_exp(n)][d]
                    r == cv[r_exp(n)][d]
                IN  /\ Kind(n) \in {"add_expression_c", "sub_expression_c",
                                    "mul_expression_c", "div_expression_c"}
                          => /\ Defined(l) /\ Defined(r)
                             /\ Kind(n) = "div_expression_c" => r.value # 0
                             /\ v = ExactResult(Kind(n), l.value, r.value)
                    /\ Kind(n) = "mod_expression_c"
                          => /\ Defined(r)
                             /\ r.value # 0 => Defined(l)
                             /\ v = ExactResult(Kind(n), l.value, r.value)
                    /\ Kind(n) = "neg_expression_c"
                          => d = "int64" /\ Defined(l) /\ v = -l.value
                    /\ Kind(n) = "neg_integer_c"
                          => d = "int64" /\ v = -ast[exp(n)].math

\* reached: a product of a negative and a positive factor folded, its
\* int64 value defined
C6_Witness ==
    /\ Folded
    /\ Kind(1) = "mul_expression_c"
    /\ Defined(cv[2]["int64"]) /\ cv[2]["int64"].value < 0
    /\ Defined(cv[3]["int64"]) /\ cv[3]["int64"].value > 1
    /\ Defined(cv[1]["int64"]) /\ cv[1]["int64"].value < -1

---------------------------------------------------------------------------
\* what the literal of the number v must carry in a slot of largest value max
Seeded(slot, v, max) ==
    IF v <= max THEN DefinedAs(slot, v) ELSE Overflow(slot)

(* C7: literal seeding totality.  The extractors never end in ERROR on a   *)
(* literal of the scanner, and after folding every integer literal the     *)
(* traversal comes to (decimal, 2#, 8#, 16#, with or without '_') of the   *)
(* number v has int64 defined as v when v <= INT64_MAX and overflow        *)
(* otherwise, and, independently, uint64 defined as v when v <= UINT64_MAX *)
(* and overflow otherwise.                                                 *)
C7_LiteralSeeding ==
    /\ aborted # "ERROR"
    /\ Folded =>
          \A n \in Nodes :
              (IsIntegerKind(Kind(n)) /\ Visited(n)) =>
                  /\ Seeded(cv[n]["int64"], ast[n].math, INT64_MAX)
                  /\ Seeded(cv[n]["uint64"], ast[n].math, UINT64_MAX)

\* reached: an octal literal with a '_' folded, too large for int64
\* and defined in uint64
C7_Witness ==
    /\ Folded
    /\ Kind(1) = "octal_integer_c" /\ "_" \in {ast[1].value[i] : i \in 1..Len(ast[1].value)}
    /\ Overflow(cv[1]["int64"])
    /\ DefinedAs(cv[1]["uint64"], ast[1].math) /\ ast[1].math > INT64_MAX

---------------------------------------------------------------------------
\* exactly the slots of the types in ds are not undefined
OnlySlots(n, ds) == \A d \in dtypes : (d \in ds) <=> ~Undefined(cv[n][d])

\* n is a bit-string literal or lies below one
RECURSIVE InBitString(_)
InBitString(n) ==
    \/ Kind(n) = "bit_string_literal_c"
    \/ n > 1 /\ InBitString(n \div 2)

(* C8: the kind of a literal decides its slots.  After folding, a real     *)
(* literal has only real64 not undefined, TRUE and FALSE only bool, an     *)
(* integer literal only int64 and uint64, and a bit-string literal and     *)
(* every symbol below it have all four slots undefined.                    *)
C8_SlotsByKind ==
    Folded =>
        \A n \in Nodes :
            /\ (Kind(n) # "none" /\ InBitString(n)) => OnlySlots(n, {})
            /\ (Visited(n) /\ Kind(n) = "real_c") => OnlySlots(n, {"real64"})
            /\ (Visited(n) /\ Kind(n) \in {"boolean_true_c", "boolean_false_c"})
                   => OnlySlots(n, {"bool"})
            /\ (Visited(n) /\ IsIntegerKind(Kind(n))) => OnlySlots(n, {"int64", "uint64"})

\* reached: a bit-string literal folded, nothing written on it or below it
C8_Witness ==
    /\ Folded
    /\ Kind(1) = "bit_string_literal_c" /\ IsIntegerKind(Kind(2))
    /\ OnlySlots(1, {}) /\ OnlySlots(2, {})

---------------------------------------------------------------------------
\* two annotations agree: every slot has the same status and, where the
\* status is defined, the same value
SameAnnotation(a, b) ==
    \A n \in Nodes : \A d \in dtypes :
        /\ a[n][d].status = b[n][d].status
        /\ a[n][d].status = "cs_const_value" => a[n][d].value = b[n][d].value

(* C9: idempotence.  The annotation a later run of the pass leaves on the  *)
(* tree is the annotation the first run left: every slot of every symbol   *)
(* has the same status and the same value.                                 *)
C9_Idempotent ==
    \A k \in 1..Len(done_cv) : SameAnnotation(done_cv[k], done_cv[1])

\* reached: a second run completed over -9223372036854775808 below a typed
\* literal, the corner where the first run's value is still on the symbol
C9_Witness ==
    /\ Len(done_cv) >= 2 /\ stack = <<>>
    /\ Kind(2) = "neg_integer_c"
    /\ DefinedAs(done_cv[1][2]["int64"], INT64_MIN)
    /\ DefinedAs(done_cv[2][2]["int64"], INT64_MIN)

---------------------------------------------------------------------------
(* C10, as claimed: within a run, once a slot is defined or marked         *)
(* overflow no later step writes it again: the log of the statuses written *)
(* to a slot in the run holds nothing after its first defined or overflow  *)
(* entry.                                                                  *)
C10_AsClaimed ==
    \A n \in Nodes : \A d \in dtypes :
        \A i \in 1..Len(wlog[n][d]) :
            wlog[n][d][i] \in {"cs_const_value", "cs_overflow"} => i = Len(wlog[n][d])

\* the slots of the symbols other than keep are as they were
OthersUnchanged(keep) ==
    \A n \in Nodes \ keep : cv'[n] = cv[n] /\ (run' = run => wlog'[n] = wlog[n])

(* C10, amended: within a run the slots of a symbol are written only by    *)
(* the visit method of that symbol, so that no later step of the run       *)
(* writes them once the method has returned; inside the method a slot may  *)
(* be written more than once (set to a value and then marked overflow, or  *)
(* set by several dispatches), but a slot marked overflow is not written   *)
(* again in that run.                                                      *)
C10_WrittenByOwnVisit ==
    /\ [][IF stack = <<>> THEN OthersUnchanged({}) ELSE OthersUnchanged({Top.sym})]_vars
    /\ [](\A n \in Nodes : \A d \in dtypes :
             \A i \in 1..Len(wlog[n][d]) :
                 wlog[n][d][i] = "cs_overflow" => i = Len(wlog[n][d]))

\* reached: a literal too large for int64, its slot set and then marked
\* overflow inside the visit of the literal
C10_Witness ==
    /\ Folded
    /\ Kind(1) = "integer_c"
    /\ wlog[1]["int64"] = <<"cs_undefined", "cs_const_value", "cs_overflow">>

---------------------------------------------------------------------------
ArithBinaryKinds ==
    {"add_expression_c", "sub_expression_c", "mul_expression_c",
     "div_expression_c", "mod_expression_c"}

(* C11, as claimed: after folding, for every add, sub, mul, div and mod    *)
(* symbol and each of uint64, int64, real64: if either operand has no      *)
(* defined value of the type, the symbol's value of that type is           *)
(* undefined, neither defined nor overflow.                                *)
C11_AsClaimed ==
    Folded =>
        \A n \in Nodes : \A d \in ArithTypes :
            (/\ Kind(n) \in ArithBinaryKinds
             /\ ~Defined(cv[l_exp(n)][d]) \/ ~Defined(cv[r_exp(n)][d]))
                => Undefined(cv[n][d])

\* the divisor of the division or MOD symbol n has the value zero in type
\* d, a type the symbol computes in
ZeroDivisor(n, d) ==
    /\ Kind(n) \in {"div_expression_c", "mod_expression_c"}
    /\ Kind(n) = "mod_expression_c" => d # "real64"
    /\ DefinedAs(cv[r_exp(n)][d], 0)

(* C11, amended: after folding, for every add, sub, mul, div and mod       *)
(* symbol and each of uint64, int64, real64: unless the symbol is a        *)
(* division or MOD whose divisor is a defined zero of the type, the value  *)
(* of the type is undefined if either operand has no defined value of the  *)
(* type; a division by a defined zero is marked overflow and a MOD by a    *)
(* defined zero is defined 0, whatever the dividend has in that type.      *)
C11_OperandsNeededButForZeroDivisor ==
    Folded =>
        \A n \in Nodes : \A d \in ArithTypes :
            Kind(n) \in ArithBinaryKinds =>
                /\ (/\ ~ZeroDivisor(n, d)
                    /\ ~Defined(cv[l_exp(n)][d]) \/ ~Defined(cv[r_exp(n)][d]))
                       => Undefined(cv[n][d])
                /\ (ZeroDivisor(n, d) /\ Kind(n) = "div_expression_c") => Overflow(cv[n][d])
                /\ (ZeroDivisor(n, d) /\ Kind(n) = "mod_expression_c") => DefinedAs(cv[n][d], 0)

\* reached: 1.0 / 0 folded; the dividend has no uint64 value, the divisor
\* is the uint64 zero, and the quotient's uint64 value is marked overflow
C11_Witness ==
    /\ Folded
    /\ Kind(1) = "div_expression_c" /\ Kind(2) = "real_c"
    /\ Undefined(cv[2]["uint64"]) /\ DefinedAs(cv[3]["uint64"], 0)
    /\ Overflow(cv[1]["uint64"])
    /\ Undefined(cv[1]["real64"])

---------------------------------------------------------------------------
\* a symbol with operands: an expression or a typed or negated literal
IsOperator(n) == Kind(n) \in BinaryKinds \cup UnaryKinds

RECURSIVE Unfoldable(_)
Unfoldable(n) ==
    \/ Kind(n) = "symbolic_variable_c"
    \/ /\ IsOperator(n)
       /\ \A d \in ArithTypes : ~ZeroDivisor(n, d)
       /\ \E c \in {l_exp(n), r_exp(n)} : c \in Nodes /\ Unfoldable(c)

---------------------------------------------------------------------------
\* what the visit method of an arithmetic symbol does after its accept calls
ArithBody(st, n, ub) ==
    CASE Kind(n) = "add_expression_c" -> add_expression_c(st, n, ub)
      [] Kind(n) = "sub_expression_c" -> sub_expression_c(st, n, ub)
      [] Kind(n) = "mul_expression_c" -> mul_expression_c(st, n, ub)
      [] Kind(n) = "div_expression_c" -> div_expression_c(st, n, ub)
      [] Kind(n) = "mod_expression_c" -> mod_expression_c(st, n, ub)

\* what the two operands may have in their slots of another type: nothing,
\* an overflow, values, a zero divisor, a zero factor
OtherSlots ==
    LET none   == [status |-> "NULL", value |-> 0]
        ovflw  == [status |-> "cs_overflow", value |-> 0]
        def(v) == [status |-> "cs_const_value", value |-> v]
    IN {<<none, none>>, <<ovflw, def(1)>>, <<def(1), ovflw>>,
        <<def(1), def(1)>>, <<none, def(0)>>, <<def(0), def(1)>>}

\* the annotation as it is, but for: the symbol n not yet annotated, and
\* the operands of n having altL and altR in their uint64, int64 and real64
\* slots other than the slot of type d
WithOtherSlots(n, d, altL, altR) ==
    [m \in Nodes |->
        [e \in dtypes |->
            IF m = n THEN NullSlot(e)
            ELSE IF e \in ArithTypes \ {d} /\ m = l_exp(n) THEN altL
            ELSE IF e \in ArithTypes \ {d} /\ m = r_exp(n) THEN altR
            ELSE cv[m][e]]]

\* the builds the run so far can be a run of: any build when the run has
\* not met an undefined operation
BuildsOfRun == IF build = Undecided THEN UBOutcomes ELSE {build}

SameSlot(a, b) ==
    /\ a.status = b.status
    /\ a.status = "cs_const_value" => a.value = b.value

(* C13: type independence.  After folding an add, sub, mul, div or mod     *)
(* symbol, its value of each type T of uint64, int64, real64 is the value  *)
(* the visit method computes from the operands' values of type T alone:    *)
(* whatever the operands have in their slots of the other types (nothing,  *)
(* an overflow, another value), a fold that completes leaves the same      *)
(* status and the same value in the slot of type T.                        *)
C13_TypeIndependence ==
    Folded =>
        \A n \in Nodes : Kind(n) \in ArithBinaryKinds =>
            \A d \in ArithTypes : \A alt \in OtherSlots : \A ub \in BuildsOfRun :
                LET st == ArithBody([Now EXCEPT !.cv = WithOtherSlots(n, d, alt[1], alt[2])],
                                    n, ub)
                IN st.ab = "no" => SameSlot(st.cv[n][d], cv[n][d])

\* reached: INT64_MAX + 1 folded, int64 overflow and uint64 defined
C13_Witness ==
    /\ Folded
    /\ Kind(1) = "add_expression_c"
    /\ DefinedAs(cv[2]["int64"], INT64_MAX) /\ DefinedAs(cv[3]["int64"], 1)
    /\ Overflow(cv[1]["int64"])
    /\ DefinedAs(cv[1]["uint64"], INT64_MAX + 1)
    /\ Undefined(cv[1]["bool"]) /\ Undefined(cv[1]["real64"])

---------------------------------------------------------------------------
\* the statuses written to a slot hold a value written before an overflow
ValueThenOverflow(log) ==
    \E i \in 1..Len(log) : \E j \in (i + 1)..Len(log) :
        log[i] = "cs_const_value" /\ log[j] = "cs_overflow"

(* C14: overflow detection is a pre-condition.  For the integer values of  *)
(* every add, sub, mul, div, mod and neg symbol the overflow predicate is  *)
(* decided before the native operation, which is not executed when the     *)
(* predicate reports overflow: no run stores the result of the native      *)
(* operation in a slot and then marks the slot overflow, and no run ends   *)
(* in the trap of a native operation (the slot created and not yet set).   *)
C14_PreCondition ==
    \A n \in Nodes : \A d \in {"uint64", "int64"} :
        Kind(n) \in ArithBinaryKinds \cup {"neg_expression_c", "neg_integer_c"} =>
            /\ ~ValueThenOverflow(wlog[n][d])
            /\ aborted = "trap" =>
                   (wlog[n][d] = <<>> \/ wlog[n][d][Len(wlog[n][d])] # "cs_undefined")


---------------------------------------------------------------------------
TypedLiteralKinds == {"integer_literal_c", "real_literal_c", "boolean_literal_c"}

IsTypedLiteral(n) == Visited(n) /\ Kind(n) \in TypedLiteralKinds

SameStatusAndValue(a, b) ==
    \/ Undefined(a) /\ Undefined(b)
    \/ Overflow(a) /\ Overflow(b)
    \/ Defined(a) /\ DefinedAs(b, a.value)

\* C15 as the specification states it: every slot of a typed literal has
\* the status of the inner literal's slot, overflow included, and its value
C15_AsClaimed ==
    Folded => \A n \in Nodes : IsTypedLiteral(n) =>
                  \A d \in dtypes : SameStatusAndValue(cv[2 * n][d], cv[n][d])

(* C15: a typed literal T#value takes over the slots of its inner literal  *)
(* that hold a value: such a slot is defined in the typed literal with the *)
(* same value.  A slot the inner literal has undefined, or has marked as   *)
(* overflow, is undefined in the typed literal: overflow is not copied.    *)
C15_DefinedSlotsCopied ==
    Folded => \A n \in Nodes : IsTypedLiteral(n) =>
                  \A d \in dtypes :
                      IF Defined(cv[2 * n][d])
                      THEN DefinedAs(cv[n][d], cv[2 * n][d].value)
                      ELSE Undefined(cv[n][d])

\* INT#(INT64_MAX + 1) folded: the literal's int64 slot is overflow and the
\* typed literal's is undefined, its uint64 value is copied
C15_Witness ==
    /\ Folded
    /\ Kind(1) = "integer_literal_c" /\ Kind(2) = "integer_c"
    /\ Overflow(cv[2]["int64"]) /\ Undefined(cv[1]["int64"])
    /\ DefinedAs(cv[2]["uint64"], INT64_MAX + 1)
    /\ DefinedAs(cv[1]["uint64"], INT64_MAX + 1)


---------------------------------------------------------------------------
\* the children the visit method of n visits
Children(n) ==
    IF Kind(n) = "bit_string_literal_c" THEN {}
    ELSE {c \in {2 * n, 2 * n + 1} \cap Nodes : Kind(c) # "none"}

Returned(n) == \E i \in 1..Len(post) : post[i] = n

Pos(n) == CHOOSE i \in 1..Len(post) : post[i] = n

OnStack(n) == \E i \in 1..Len(stack) : stack[i].sym = n

Written(n) == \E d \in dtypes : wlog[n][d] # <<>>

\* where the traversal stands, every visit of the current run is in
\* post-order: a right child is entered after the left one has returned, a
\* symbol's slots are written after its children have returned, and a
\* symbol returns after its children, left before right
PostOrder ==
    \A n \in Nodes : Visited(n) =>
        /\ Written(n) => \A c \in Children(n) : Returned(c)
        /\ Returned(n) =>
               \A c \in Children(n) : Returned(c) /\ Pos(c) < Pos(n)
        /\ \A l \in Children(n) : \A r \in Children(n) :
               (l < r /\ (OnStack(r) \/ Returned(r) \/ Written(r))) =>
                   (Returned(l) /\ ~OnStack(l) /\ (Returned(r) => Pos(l) < Pos(r)))

\* a symbol whose visit has returned keeps its slots for the rest of the run
FinalOnReturn ==
    run' = run => \A n \in Nodes : Returned(n) => cv'[n] = cv[n]

(* C16: the traversal is strictly post-order.  For every symbol with       *)
(* children the left child is visited before the right one, both children  *)
(* have returned before any slot of the symbol is written, and no slot of  *)
(* a child changes after its visit has returned, for the rest of the run.  *)
C16_StrictPostOrder == [](PostOrder) /\ [][FinalOnReturn]_vars

\* a fold of a binary expression whose two operands have an operand each
\* has completed: the five visits returned in post-order
C16_Witness ==
    /\ Folded
    /\ Kind(1) \in BinaryKinds
    /\ post = <<4, 2, 6, 3, 1>>
    /\ Written(2) /\ Written(3) /\ Written(1)


---------------------------------------------------------------------------
\* the process was ended by a trap in the visit method of n
TrappedIn(n) == aborted = "trap" /\ stack # <<>> /\ Top.sym = n

\* C17 as the specification states it: a product of two defined uint64
\* values is overflow exactly when a # 0 and UINT64_MAX / a < b, and is
\* the defined product otherwise; for a = 0 no division by zero happens
\* and the product is the defined value 0
C17_AsClaimed ==
    \A n \in Nodes :
        (/\ Visited(n) /\ Kind(n) = "mul_expression_c"
         /\ Defined(cv[l_exp(n)]["uint64"]) /\ Defined(cv[r_exp(n)]["uint64"]))
        => LET a == cv[l_exp(n)]["uint64"].value
               b == cv[r_exp(n)]["uint64"].value
           IN /\ ~(TrappedIn(n) /\ a = 0)
              /\ Folded => IF a # 0 /\ UINT64_MAX \div a < b
                           THEN Overflow(cv[n]["uint64"])
                           ELSE DefinedAs(cv[n]["uint64"], a * b)

---------------------------------------------------------------------------
InRange(d, x) ==
    IF d = "uint64" THEN 0 <= x /\ x <= UINT64_MAX
                    ELSE INT64_MIN <= x /\ x <= INT64_MAX

\* the operations whose overflow test is a test of the range of the result
RangeChecked(d) ==
    IF d = "uint64" THEN {"add_expression_c", "sub_expression_c"}
                    ELSE {"add_expression_c", "sub_expression_c", "mul_expression_c"}

(* C18: the integer overflow flags are exact.  After a fold, for uint64    *)
(* add and sub and for int64 add, sub and mul over two defined operand     *)
(* values, the result is overflow if and only if the mathematical result   *)
(* is outside the range of the type; otherwise it is that result, defined. *)
C18_FlagsExact ==
    Folded =>
        \A n \in Nodes : \A d \in {"uint64", "int64"} :
            (/\ Visited(n) /\ Kind(n) \in RangeChecked(d)
             /\ Defined(cv[l_exp(n)][d]) /\ Defined(cv[r_exp(n)][d]))
            => LET x == ExactResult(Kind(n), cv[l_exp(n)][d].value, cv[r_exp(n)][d].value)
               IN IF InRange(d, x) THEN DefinedAs(cv[n][d], x)
                                   ELSE Overflow(cv[n][d])

\* INT64_MIN * -1 folded: int64 overflow, the result being INT64_MAX + 1
C18_Witness ==
    /\ Folded
    /\ Kind(1) = "mul_expression_c"
    /\ DefinedAs(cv[2]["int64"], INT64_MIN) /\ DefinedAs(cv[3]["int64"], -1)
    /\ Overflow(cv[1]["int64"])

---------------------------------------------------------------------------
(* C19: signed MOD.  After a fold, a MOD b over two defined int64 operand  *)
(* values is overflow only for a = INT64_MIN and b = -1; for b = 0 it is   *)
(* the defined value 0; otherwise it is the defined value a - (a / b) * b  *)
(* with the quotient truncated toward zero.                                *)
C19_SignedMod ==
    Folded =>
        \A n \in Nodes :
            (/\ Visited(n) /\ Kind(n) = "mod_expression_c"
             /\ Defined(cv[l_exp(n)]["int64"]) /\ Defined(cv[r_exp(n)]["int64"]))
            => LET a == cv[l_exp(n)]["int64"].value
                   b == cv[r_exp(n)]["int64"].value
               IN IF a = INT64_MIN /\ b = -1 THEN Overflow(cv[n]["int64"])
                  ELSE IF b = 0 THEN DefinedAs(cv[n]["int64"], 0)
                  ELSE DefinedAs(cv[n]["int64"], a - ExactQuotient(a, b) * b)

\* -7 MOD 2 folded: the remainder -1 has the sign of the dividend
C19_Witness ==
    /\ Folded
    /\ Kind(1) = "mod_expression_c"
    /\ DefinedAs(cv[2]["int64"], -7) /\ DefinedAs(cv[3]["int64"], 2)
    /\ DefinedAs(cv[1]["int64"], -1)

---------------------------------------------------------------------------
\* the operand of n holds INT64_MAX + 1: too large for int64, a uint64 value
OperandIsMinusInt64Min(n) ==
    /\ Overflow(cv[exp(n)]["int64"])
    /\ DefinedAs(cv[exp(n)]["uint64"], INT64_MAX + 1)

\* C20 as the specification states it: a neg expression over an operand
\* with int64 overflow and the uint64 value INT64_MAX + 1 has the defined
\* int64 value INT64_MIN
C20_AsClaimed ==
    Folded => \A n \in Nodes :
        (Visited(n) /\ Kind(n) = "neg_expression_c" /\ OperandIsMinusInt64Min(n))
        => DefinedAs(cv[n]["int64"], INT64_MIN)

(* C20: the INT64_MIN corner does not hold for the unary-minus operator.   *)
(* After a fold the int64 slot of a neg expression is given by the int64   *)
(* slot of its operand alone: undefined if that is not a defined value,    *)
(* overflow if it is INT64_MIN, minus the value otherwise.  Over an        *)
(* operand with int64 overflow and the uint64 value INT64_MAX + 1 it is    *)
(* left undefined.                                                         *)
C20_NegExpressionNoCorner ==
    Folded => \A n \in Nodes :
        (Visited(n) /\ Kind(n) = "neg_expression_c")
        => LET a == cv[exp(n)]["int64"]
           IN /\ IF ~Defined(a) THEN Undefined(cv[n]["int64"])
                 ELSE IF a.value = INT64_MIN THEN Overflow(cv[n]["int64"])
                 ELSE DefinedAs(cv[n]["int64"], -a.value)
              /\ OperandIsMinusInt64Min(n) => Undefined(cv[n]["int64"])

\* -(INT64_MAX + 1) as a neg expression folded: its int64 slot is undefined
C20_Witness ==
    /\ Folded
    /\ Kind(1) = "neg_expression_c" /\ Kind(2) = "integer_c"
    /\ OperandIsMinusInt64Min(1)
    /\ Undefined(cv[1]["int64"])


---------------------------------------------------------------------------
\* C21 as the specification states it: in a first run and in every
\* repeated run, every slot whose value the pass reads has a value
C21_PreconditionMet == unmet = {}


---------------------------------------------------------------------------
\* X ** e in halves for the integer X and e >= 0, from acc; beyond the
\* range of real64 only the sign is kept
RECURSIVE IntegerPower(_, _, _)
IntegerPower(X, e, acc) ==
    IF e = 0 THEN acc
    ELSE IF Abs(acc) > REAL64_MAX THEN IntegerPower(X, e - 1, IF X < 0 THEN -acc ELSE acc)
    ELSE IntegerPower(X, e - 1, acc * X)

NoReal64 == 4 * INFINITY

\* the mathematical x ** e for the real64 x (in halves) and the integer e,
\* in halves, in the cases where it is a count of halves or is infinite
ExactPower(x, e) ==
    IF e = 0 THEN 2
    ELSE IF e = 1 THEN x
    ELSE IF e > 1 /\ x % 2 = 0 THEN IntegerPower(x \div 2, e, 2)
    ELSE IF e < 0 /\ x = 0 THEN INFINITY
    ELSE IF e < 0 /\ Abs(x) = 2 THEN (IF x > 0 \/ e % 2 = 0 THEN 2 ELSE -2)
    ELSE NoReal64

\* the power symbol n can be folded: a real64 base and an integer exponent
PowerFoldable(n) ==
    /\ Defined(cv[l_exp(n)]["real64"])
    /\ Defined(cv[r_exp(n)]["int64"]) \/ Defined(cv[r_exp(n)]["uint64"])

(* C22: the power symbol.  After a fold its real64 slot exists if and only *)
(* if the base has a defined real64 value and the exponent a defined int64 *)
(* or uint64 value; its other slots never exist.  Where the exponent has   *)
(* both values they are the same number, so both computations give the    *)
(* same result.  Where the exact power is a real64 value the slot is       *)
(* defined with it, and where it is beyond the range the slot is overflow. *)
(* With a real or unknown exponent or a base without real64 value nothing  *)
(* is written.                                                             *)
C22_Power ==
    Folded => \A n \in Nodes : (Visited(n) /\ Kind(n) = "power_expression_c") =>
        LET x  == cv[l_exp(n)]["real64"].value
            ei == cv[r_exp(n)]["int64"]
            eu == cv[r_exp(n)]["uint64"]
            e  == IF Defined(eu) THEN eu.value ELSE ei.value
            p  == ExactPower(x, e)
        IN /\ \A d \in dtypes \ {"real64"} : cv[n][d].status = "NULL"
           /\ ~PowerFoldable(n) => cv[n]["real64"].status = "NULL"
           /\ PowerFoldable(n) =>
                 /\ Defined(cv[n]["real64"]) \/ Overflow(cv[n]["real64"])
                 /\ (Defined(ei) /\ Defined(eu)) => ei.value = eu.value
                 /\ p # NoReal64 =>
                        IF Abs(p) <= REAL64_MAX
                        THEN DefinedAs(cv[n]["real64"], p)
                        ELSE Overflow(cv[n]["real64"])

\* 2.0 ** 10 folded: real64 1024.0 and nothing else
C22_Witness ==
    /\ Folded
    /\ Kind(1) = "power_expression_c"
    /\ DefinedAs(cv[2]["real64"], 4)
    /\ DefinedAs(cv[3]["uint64"], 10)
    /\ DefinedAs(cv[1]["real64"], 2048)
    /\ \A d \in dtypes \ {"real64"} : cv[1][d].status = "NULL"


---------------------------------------------------------------------------
RelationalKinds ==
    {"equ_expression_c", "notequ_expression_c", "lt_expression_c",
     "gt_expression_c", "le_expression_c", "ge_expression_c"}

\* the order of the values of a type as numbers; FALSE is below TRUE
AsNumber(d, v) == IF d = "bool" THEN (IF v THEN 1 ELSE 0) ELSE v

\* the comparison a relational symbol of the kind stands for
Holds(kind, a, b) ==
    CASE kind = "equ_expression_c"    -> a = b
      [] kind = "notequ_expression_c" -> ~(a = b)
      [] kind = "lt_expression_c"     -> a < b
      [] kind = "gt_expression_c"     -> b < a
      [] kind = "le_expression_c"     -> ~(b < a)
      [] kind = "ge_expression_c"     -> ~(a < b)

\* the types in which both operands of n have a value
Dispatched(n) ==
    {d \in dtypes : Defined(cv[l_exp(n)][d]) /\ Defined(cv[r_exp(n)][d])}

ComparedIn(n, d) ==
    Holds(Kind(n), AsNumber(d, cv[l_exp(n)][d].value), AsNumber(d, cv[r_exp(n)][d].value))

(* C23: relational symbols.  After a fold of ==, <>, <, >, <= or >=, the   *)
(* comparisons in all the types in which both operands have a value give   *)
(* the same Boolean, the bool slot of the symbol is defined with it, the   *)
(* mathematical comparison of the operands, and it is the only slot of the *)
(* symbol; without such a type the symbol has no slot.                     *)
C23_Relational ==
    Folded => \A n \in Nodes : (Visited(n) /\ Kind(n) \in RelationalKinds) =>
        /\ \A d1 \in Dispatched(n) : \A d2 \in Dispatched(n) :
               ComparedIn(n, d1) = ComparedIn(n, d2)
        /\ \A d \in Dispatched(n) : DefinedAs(cv[n]["bool"], ComparedIn(n, d))
        /\ Dispatched(n) = {} => cv[n]["bool"].status = "NULL"
        /\ \A d \in dtypes \ {"bool"} : cv[n][d].status = "NULL"

\* 1 < 2 folded, compared as uint64 and as int64: TRUE
C23_Witness ==
    /\ Folded
    /\ Kind(1) = "lt_expression_c"
    /\ Dispatched(1) = {"uint64", "int64"}
    /\ DefinedAs(cv[2]["int64"], 1) /\ DefinedAs(cv[3]["int64"], 2)
    /\ DefinedAs(cv[1]["bool"], TRUE)


---------------------------------------------------------------------------
\* the slot is defined or overflow
Annotated(slot) == ~Undefined(slot)

(* C24: agreement of the signed and the unsigned value.  After a fold, on  *)
(* every symbol whose int64 and uint64 slots are both defined they hold    *)
(* the same number, which is in 0..INT64_MAX; and no symbol has a bool or  *)
(* real64 slot that is defined or overflow together with an int64 or       *)
(* uint64 slot that is defined or overflow.                                *)
C24_SignedUnsignedAgree ==
    Folded => \A n \in Nodes : Visited(n) =>
        /\ (Defined(cv[n]["int64"]) /\ Defined(cv[n]["uint64"])) =>
               /\ cv[n]["int64"].value = cv[n]["uint64"].value
               /\ cv[n]["int64"].value \in 0..INT64_MAX
        /\ ~(/\ Annotated(cv[n]["bool"]) \/ Annotated(cv[n]["real64"])
             /\ Annotated(cv[n]["int64"]) \/ Annotated(cv[n]["uint64"]))

\* 1 + 2 folded: int64 3 and uint64 3, no bool and no real64
C24_Witness ==
    /\ Folded
    /\ Kind(1) = "add_expression_c"
    /\ DefinedAs(cv[2]["int64"], 1) /\ DefinedAs(cv[3]["int64"], 2)
    /\ DefinedAs(cv[1]["int64"], 3) /\ DefinedAs(cv[1]["uint64"], 3)
    /\ Undefined(cv[1]["bool"]) /\ Undefined(cv[1]["real64"])


---------------------------------------------------------------------------
IntegerTypeNames ==
    { <<"S", "INT">>, <<"INT">>, <<"D", "INT">>, <<"L", "INT">>,
      <<"U", "S", "INT">>, <<"U", "INT">>, <<"U", "D", "INT">>, <<"U", "L", "INT">> }

Generated(name) == \E i \in 1..Len(text) : text[i].name = name

FunctionNamed(name) == text[CHOOSE i \in 1..Len(text) : text[i].name = name]

\* the integer literal of the number k, as a program writes it
IntegerLiteral(k) == Digits(k, 10)

\* C25 as the specification states it: for every integer type the generated
\* <INTEGER>_TO_<ENUM> maps k to the k-th value of the declaration and
\* <ENUM>_TO_<INTEGER> maps the k-th value to k, for k = 1..N
C25_NumberedFromOne ==
    text # <<>> =>
        \A T \in IntegerTypeNames :
            LET E      == enum_decl.name
                values == enum_decl.values
                toEnum == T \o <<"_TO_", E>>
                toInt  == <<E, "_TO_">> \o T
            IN /\ Generated(toEnum) /\ Generated(toInt)
               /\ \A k \in 1..Len(values) :
                      /\ Call(FunctionNamed(toEnum), IntegerLiteral(k)) = << <<values[k]>> >>
                      /\ Call(FunctionNamed(toInt), <<values[k]>>) = <<IntegerLiteral(k)>>

=============================================================================
